---- MODULE Spec2Model ----
(***************************************************************************)
(* Snapshot normalisation: the filename Canonicalizer                      *)
(* (_bin/fix-single-file-naming.ts) and the inline-image Compactor         *)
(* (_bin/fix-snapshots.ts).  Spec is the Canonicalizer over a directory,   *)
(* SpecMain is one process of it from its command line to its exit code,   *)
(* SpecName follows maybeFixFile on one file through its steps,            *)
(* SpecWorkers runs one maybeFixFile call per file of a directory side by  *)
(* side, SpecStrip is the strip filters of the Compactor on one document,  *)
(* and SpecCompact is the Compactor on one document.                       *)
(*                                                                         *)
(* Text (file names, URLs, documents) is a sequence of one-character       *)
(* strings.  A full-width character is one element, written as a token     *)
(* such as "FW_COLON" (U+FF1A).  Offsets are 0-based, as in the source.    *)
(***************************************************************************)
EXTENDS Integers, Sequences, FiniteSets, TLC

VARIABLES
  \* ---- Canonicalizer
  fs,         \* the directory: file name -> file id (the id stands for the bytes)
  fs0,        \* the directory before the first run
  docOf,      \* file id -> the document's text and readability
  flags,      \* parseArgs: [apply, quiet, preferCanonical]
  now,        \* the wall clock, in milliseconds after ClockBase
  run,        \* number of processDir runs started
  pending,    \* entries of the readdir snapshot that walk has not yielded yet
  cpc,        \* where the run is: idle | walk | dedupe | rename | report
  cur,        \* locals of maybeFixFile / dedupeAndMaybeRename for the current file
  fsAtCall,   \* the directory when the current file's processing began
  renames,    \* fs.rename calls that succeeded in the current run
  overwrote,  \* some fs.rename had a destination that existed
  log,        \* the console lines written so far: [tag, from, to]
  \* ---- Compactor
  disk,       \* the text of the document file
  disk0,      \* the text of the document file before the run
  assets,     \* the asset files written: [path, bytes]
  opts,       \* the command line: [quality, maxWidth, target, stripScripts, extract, gifWebp]
  pc,         \* where main is: start | pass | scan | join | extract | replace | write | done | failed
  current,    \* main: the text being compacted
  pass,       \* main: number of passes begun
  q,          \* main: quality of the next pass
  w,          \* main: maximal width of the next pass
  targetBytes,       \* main: the size to reach
  before,     \* main: size of the text that entered the last pass
  delta,      \* main: before - after of the last pass
  lastReplacements,  \* main: replacements of the last pass
  loopState,  \* Running, or the break that ended the loop: Converged | Stalled | ExhaustedParameters
  i,          \* compressInlineOnce: scan offset; replaceAsync: lastIndex
  out,        \* compressInlineOnce: the parts pushed so far, joined
  replaced,   \* compressInlineOnce: replacements so far
  cache,      \* hash -> base64 text (compressInlineOnce) or asset path (extractImagesToAssets)
  matches,    \* replaceAsync: the matches not handled yet
  extracted,  \* extractImagesToAssets: files written so far
  events,     \* what was done with each span of the current pass, in order
  writes,     \* number of writeFile calls on the document file
  \* ---- maybeFixFile on one file, step by step
  nHtml,      \* the text readFile returned
  nBase,      \* originalBase
  nPrefer,    \* flags.preferCanonical
  nClock,     \* the wall clock, in milliseconds after ClockBase
  npc,        \* where maybeFixFile is: off | read | try | found | flat | named | fallback
  nLeft,      \* extractBestUrl: the candidates not tried yet
  nUrl,       \* urlStr
  flatUrlBase,
  dtSuffix,
  newBase,    \* newBase, or normalized in the branch without a URL
  \* ---- one maybeFixFile call per file, run side by side
  workers,    \* file id -> the call's locals: [file, pc, desired, candidate, n]
  \* ---- the strip filters of fix-snapshots.ts
  strips,     \* [original, text, selected, threshold, pc, removed]
  \* ---- main of fix-single-file-naming.ts
  proc        \* the process: [argv, dirExists, pc, exitCode]

canonVars == <<fs, fs0, docOf, flags, now, run, pending, cpc, cur, fsAtCall,
               renames, overwrote, log>>

scanVars == <<i, out, replaced, cache>>

compactVars == <<disk, disk0, assets, opts, pc, current, pass, q, w, targetBytes,
                 before, delta, lastReplacements, loopState, i, out, replaced,
                 cache, matches, extracted, events, writes>>

nameVars == <<nHtml, nBase, nPrefer, nClock, npc, nLeft, nUrl, flatUrlBase,
              dtSuffix, newBase>>

vars == <<canonVars, compactVars, nameVars, workers, strips, proc>>

\* ------------------------------------------------------------------ text
\* (values are handed on through operator parameters, each computed once)

Min(S) == CHOOSE x \in S : \A y \in S : x <= y

Max(S) == CHOOSE x \in S : \A y \in S : x >= y

MinOr(S, none) == IF S = {} THEN none ELSE Min(S)

MaxOr(S, none) == IF S = {} THEN none ELSE Max(S)

Digits == {"0","1","2","3","4","5","6","7","8","9"}

DigitChars == <<"0","1","2","3","4","5","6","7","8","9">>

UpperLetters == <<"A","B","C","D","E","F","G","H","I","J","K","L","M","N","O","P","Q","R","S","T","U","V","W","X","Y","Z">>

LowerLetters == <<"a","b","c","d","e","f","g","h","i","j","k","l","m","n","o","p","q","r","s","t","u","v","w","x","y","z">>

\* 1-based position of c in s, 0 when absent
PosIn(c, s) == MinOr({x \in 1..Len(s) : s[x] = c}, 0)

ToLowerChar(c) ==
  LET at(x) == IF x = 0 THEN c ELSE LowerLetters[x]
  IN at(PosIn(c, UpperLetters))

\* the letters A-Z lower-cased, character by character: how a regular
\* expression with the i flag and the URL parser compare letters
asciiLower(s) == [x \in 1..Len(s) |-> ToLowerChar(s[x])]

\* s.toLowerCase(): as above, but the capital I with a dot above (U+0130),
\* written "DOTTED_I", becomes two characters, an i and a combining dot
RECURSIVE toLowerCase(_)
toLowerCase(s) ==
  LET at(p) ==
        IF p = 0 THEN asciiLower(s)
        ELSE asciiLower(SubSeq(s, 1, p - 1)) \o <<"i", "COMBINING_DOT">>
               \o toLowerCase(SubSeq(s, p + 1, Len(s)))
  IN at(PosIn("DOTTED_I", s))

\* s.slice(a, b)
slice(s, a, b) == SubSeq(s, a + 1, b)

\* s.slice(a)
sliceFrom(s, a) == SubSeq(s, a + 1, Len(s))

\* lit occurs in s at offset i
StartsAt(s, lit, x) ==
  /\ x >= 0
  /\ x + Len(lit) <= Len(s)
  /\ \A j \in 1..Len(lit) : s[x + j] = lit[j]

\* s.indexOf(lit, from)
indexOf(s, lit, from) ==
  MinOr({x \in from..(Len(s) - Len(lit)) : StartsAt(s, lit, x)}, -1)

\* s.lastIndexOf(lit)
lastIndexOf(s, lit) ==
  MaxOr({x \in 0..(Len(s) - Len(lit)) : StartsAt(s, lit, x)}, -1)

endsWith(s, suf) == StartsAt(s, suf, Len(s) - Len(suf))

\* s.replace(/c/g, r) for one character c and a replacement text r
RECURSIVE replaceChar(_, _, _)
replaceChar(s, c, r) ==
  IF s = <<>> THEN <<>>
  ELSE (IF Head(s) = c THEN r ELSE <<Head(s)>>) \o replaceChar(Tail(s), c, r)

\* String(n) for n >= 0
RECURSIVE ToDecimal(_)
ToDecimal(n) ==
  IF n < 10 THEN <<DigitChars[n + 1]>>
  ELSE ToDecimal(n \div 10) \o <<DigitChars[(n % 10) + 1]>>

\* --------------------------------------------- fix-single-file-naming.ts

INVALID_FILENAME_CHARS ==
  {"~", "+", "\\", "?", "%", "*", ":", "|", "\"", "<", ">", "/", "\n", "\r", "\t"}

FullwidthKeys ==
  <<"FW_TILDE", "FW_PLUS", "FW_QUESTION", "FW_PERCENT", "FW_STAR", "FW_COLON",
    "FW_BAR", "FW_QUOTE", "FW_LT", "FW_GT", "FW_BACKSLASH", "FW_SLASH">>

FullwidthVals ==
  <<"~", "+", "?", "%", "*", ":", "|", "\"", "<", ">", "\\", "/">>

\* FULLWIDTH_TO_ASCII[ch] ?? ch
FULLWIDTH_TO_ASCII(ch) ==
  LET at(x) == IF x = 0 THEN ch ELSE FullwidthVals[x]
  IN at(PosIn(ch, FullwidthKeys))

normalizeWeirdPunctToAscii(s) == [x \in 1..Len(s) |-> FULLWIDTH_TO_ASCII(s[x])]

\* the alternatives of HTML_EXT_RE, longest first
HtmlExts ==
  << <<".","u",".","z","i","p",".","h","t","m","l">>, <<".","z","i","p",".","h","t","m","l">>, <<".","h","t","m","l">>, <<".","z","i","p">> >>

\* base.match(HTML_EXT_RE): the matched text m[0], or <<>> when there is no
\* match.  The leftmost match of an end-anchored alternation is the longest
\* alternative that is a suffix; /i compares case-insensitively and m[0] is
\* the base's own text.
HtmlExtMatch(base) ==
  LET pick(k) == IF k = 0 THEN <<>> ELSE sliceFrom(base, Len(base) - Len(HtmlExts[k]))
      in(low) == pick(MinOr({k \in 1..Len(HtmlExts) : endsWith(low, HtmlExts[k])}, 0))
  IN in(asciiLower(base))

HTML_EXT_RE_test(file) == HtmlExtMatch(file) # <<>>

splitNameExt_lastDot(base) ==
  LET at(li) == IF li = -1 THEN [name |-> base, ext |-> <<>>]
                ELSE [name |-> slice(base, 0, li), ext |-> sliceFrom(base, li)]
  IN at(lastIndexOf(base, <<".">>))

splitNameExt(base) ==
  LET at(m) == IF m # <<>>
               THEN [name |-> slice(base, 0, lastIndexOf(base, m)), ext |-> m]
               ELSE splitNameExt_lastDot(base)
  IN at(HtmlExtMatch(base))

\* ---- DATETIME_IN_NAME_RE

IsDigits(s) == \A x \in 1..Len(s) : s[x] \in Digits

TimeChars == Digits \cup {"FW_COLON", "_"}

\* (?:\.[^.]+)?$  matches the rest of the name
DatetimeTailOk(rest) ==
  \/ rest = <<>>
  \/ /\ Len(rest) >= 2
     /\ rest[1] = "."
     /\ \A x \in 2..Len(rest) : rest[x] # "."

\* the capture group matches s at offset p with length n (24 with the
\* millisecond field, 20 without it), and the rest of the pattern matches
\* after it
DatetimeAt(s, p, n) ==
  LET group(g) ==
        /\ IsDigits(SubSeq(g, 1, 4)) /\ g[5] = "-"
        /\ IsDigits(SubSeq(g, 6, 7)) /\ g[8] = "-"
        /\ IsDigits(SubSeq(g, 9, 10)) /\ g[11] = "T"
        /\ \A x \in 12..19 : g[x] \in TimeChars
        /\ IF n = 24
           THEN g[20] \in {".", "_"} /\ IsDigits(SubSeq(g, 21, 23)) /\ g[24] = "Z"
           ELSE g[20] = "Z"
  IN /\ p + n <= Len(s)
     /\ group(slice(s, p, p + n))
     /\ DatetimeTailOk(sliceFrom(s, p + n))

\* originalBase.match(DATETIME_IN_NAME_RE)?.[1], or <<>>: the leftmost '-'
\* from which the pattern matches; the optional millisecond group is tried
\* first
DatetimeInName(s) ==
  LET take(p) ==
        IF p = 0 THEN <<>>
        ELSE IF DatetimeAt(s, p, 24) THEN slice(s, p, p + 24) ELSE slice(s, p, p + 20)
  IN take(MinOr({p \in 1..Len(s) :
                   s[p] = "-" /\ (DatetimeAt(s, p, 24) \/ DatetimeAt(s, p, 20))},
                0))

normalizeDatetimeForName(dt) ==
  replaceChar(replaceChar(normalizeWeirdPunctToAscii(dt), ":", <<"_">>),
              ".", <<"_">>)

ClockBase == <<"2","0","2","5","-","0","9","-","0","7","T","1","4",":","5","0",":","5","5",".">>

Pad3(n) ==
  LET pad(d) == IF Len(d) = 1 THEN <<"0", "0">> \o d
                ELSE IF Len(d) = 2 THEN <<"0">> \o d ELSE d
  IN pad(ToDecimal(n))

\* d.toISOString() for the instant t milliseconds after ClockBase (t < 1000)
toISOString(t) == ClockBase \o Pad3(t) \o <<"Z">>

toDatetimeIsoForName(t) ==
  replaceChar(replaceChar(toISOString(t), ":", <<"_">>), ".", <<"_">>)

extractOrMakeDatetimeSuffix(originalBase, t) ==
  LET orNow(m) ==
        IF m # <<>> THEN normalizeDatetimeForName(m) ELSE toDatetimeIsoForName(t)
  IN orNow(DatetimeInName(originalBase))

\* ---- sanitizeFilename

\* name.replace(/_{2,}/g, "_")
RECURSIVE collapseUnderscores(_)
collapseUnderscores(s) ==
  IF Len(s) < 2 THEN s
  ELSE IF s[1] = "_" /\ s[2] = "_" THEN collapseUnderscores(Tail(s))
  ELSE <<Head(s)>> \o collapseUnderscores(Tail(s))

\* name.replace(/^_+/, "")
RECURSIVE trimLeadingUnderscores(_)
trimLeadingUnderscores(s) ==
  IF s # <<>> /\ Head(s) = "_" THEN trimLeadingUnderscores(Tail(s)) ELSE s

\* the alternatives of the second pattern of sanitizeFilename
SanitizeExts ==
  << <<".","h","t","m","l">>, <<".","z","i","p">>, <<".","z","i","p",".","h","t","m","l">>, <<".","u",".","z","i","p",".","h","t","m","l">> >>

\* number of '_' that end at offset e of s
RECURSIVE underscoreRun(_, _)
underscoreRun(s, e) ==
  IF e > 0 /\ s[e] = "_" THEN 1 + underscoreRun(s, e - 1) ELSE 0

\* name.replace(/_+(\.(?:html|zip(?:\.html)?|u\.zip\.html))$/i, "_$1"): the
\* run of r '_' that ends at offset e, where the extension begins, becomes
\* one '_'
squeezeBeforeExt(s) ==
  LET squeeze(e, r) == slice(s, 0, e - r) \o <<"_">> \o sliceFrom(s, e)
      at(e) == squeeze(e, underscoreRun(s, e))
      ext(k) == IF k = 0 THEN s ELSE at(Len(s) - Len(SanitizeExts[k]))
      in(low) ==
        ext(MinOr({k \in 1..Len(SanitizeExts) :
                     /\ endsWith(low, SanitizeExts[k])
                     /\ underscoreRun(s, Len(s) - Len(SanitizeExts[k])) > 0}, 0))
  IN in(asciiLower(s))

sanitizeFilename(name) ==
  LET \* name.replace(INVALID_FILENAME_CHARS, "_")
      replaceInvalid(s) ==
        [x \in 1..Len(s) |-> IF s[x] \in INVALID_FILENAME_CHARS THEN "_" ELSE s[x]]
  IN squeezeBeforeExt(trimLeadingUnderscores(collapseUnderscores(
       replaceInvalid(normalizeWeirdPunctToAscii(name)))))

\* ---- URLs

\* first offset >= from of a character of set cs in s, Len(s) when there is none
FirstOf(s, cs, from) ==
  MinOr({x \in from..(Len(s) - 1) : s[x + 1] \in cs}, Len(s))

ForbiddenHostChars == {" ", "<", ">", "\"", "\\", "^", "|", "%", "@", "[", "]"}

\* new URL(input) for an input that starts with a scheme and "://": the URL
\* object, scheme and host lower-cased, an empty path read as "/"; ok = FALSE
\* where the constructor throws
ParseUrl(s) ==
  LET record(scheme, hostRaw, portRaw, pathRaw, search, hash) ==
        [ok |-> /\ hostRaw # <<>>
                /\ \A x \in 1..Len(hostRaw) : hostRaw[x] \notin ForbiddenHostChars
                /\ IsDigits(portRaw),
         protocol |-> asciiLower(scheme) \o <<":">>,
         hostname |-> asciiLower(hostRaw),
         port |-> portRaw,
         pathname |-> IF pathRaw = <<>> THEN <<"/">> ELSE pathRaw,
         search |-> search,
         hash |-> hash]
      port(scheme, authority, colon, pathRaw, search, hash) ==
        record(scheme,
               IF colon = 0 THEN authority ELSE SubSeq(authority, 1, colon - 1),
               IF colon = 0 THEN <<>> ELSE SubSeq(authority, colon + 1, Len(authority)),
               pathRaw, search, hash)
      authority(scheme, a, pathRaw, search, hash) ==
        port(scheme, a, PosIn(":", a), pathRaw, search, hash)
      parts(sep, aEnd, pEnd, hStart) ==
        authority(slice(s, 0, sep), slice(s, sep + 3, aEnd), slice(s, aEnd, pEnd),
                  slice(s, pEnd, hStart), sliceFrom(s, hStart))
      path(sep, aEnd, pEnd) == parts(sep, aEnd, pEnd, FirstOf(s, {"#"}, pEnd))
      host(sep, aEnd) == path(sep, aEnd, FirstOf(s, {"?", "#"}, aEnd))
      scheme(sep) ==
        IF sep < 1 THEN [ok |-> FALSE]
        ELSE host(sep, FirstOf(s, {"/", "?", "#"}, sep + 3))
  IN scheme(indexOf(s, <<":","/","/">>, 0))

UrlToString_full(u) ==
  u.protocol \o <<"/", "/">> \o u.hostname
    \o (IF u.port = <<>> THEN <<>> ELSE <<":">> \o u.port) \o u.pathname
    \o u.search \o u.hash

\* u.toString() after u.hash = "" and u.search = ""
UrlToString(u) ==
  u.protocol \o <<"/", "/">> \o u.hostname
    \o (IF u.port = <<>> THEN <<>> ELSE <<":">> \o u.port) \o u.pathname

NoUrl == <<>>

\* input.trim()
RECURSIVE trimLeft(_)
trimLeft(s) ==
  IF s # <<>> /\ Head(s) \in {" ", "\n", "\r", "\t"} THEN trimLeft(Tail(s)) ELSE s

RECURSIVE trimRight(_)
trimRight(s) ==
  IF s # <<>> /\ s[Len(s)] \in {" ", "\n", "\r", "\t"}
  THEN trimRight(SubSeq(s, 1, Len(s) - 1)) ELSE s

trim(s) == trimRight(trimLeft(s))

\* input.replace(/^['"]|['"]$/g, "")
stripQuotes(s) ==
  LET trailing(a) ==
        IF a # <<>> /\ a[Len(a)] \in {"'", "\""} THEN SubSeq(a, 1, Len(a) - 1) ELSE a
  IN trailing(IF s # <<>> /\ Head(s) \in {"'", "\""} THEN Tail(s) ELSE s)

\* /^https?:\/\//i.test(input)
HasHttpScheme(s) ==
  LET in(low) == StartsAt(low, <<"h","t","t","p",":","/","/">>, 0) \/ StartsAt(low, <<"h","t","t","p","s",":","/","/">>, 0)
  IN in(asciiLower(s))

absolutizeAndValidateUrl(input) ==
  LET urlOrNone(u) == IF ~u.ok THEN NoUrl ELSE UrlToString(u)
      validate(cleaned) ==
        IF ~HasHttpScheme(cleaned) THEN NoUrl ELSE urlOrNone(ParseUrl(cleaned))
  IN validate(stripQuotes(trim(normalizeWeirdPunctToAscii(input))))

\* ---- the URL signals of a document

WordChars ==
  {UpperLetters[x] : x \in 1..26} \cup {LowerLetters[x] : x \in 1..26}
    \cup Digits \cup {"_"}

\* \s, as far as the texts here go
SpaceChars == {" ", "\n", "\r", "\t"}

Quotes == {"\"", "'"}

\* the character at offset x of s is a word character (\w); \b holds between
\* a word character and a character, or end, that is none
IsWordAt(s, x) == x >= 0 /\ x < Len(s) /\ s[x + 1] \in WordChars

\* the capture of  \b<name>["']([^"']+)["'][^>]*>  when <name> (href=,
\* content=) is matched at offset h, the text skipped by [^>]* beginning at
\* offset from; <<>> when the pattern does not match there
AttrValueAt(html, lower, name, from, h) ==
  LET closed(v, eq) ==
        IF eq > v /\ eq < Len(lower) /\ FirstOf(lower, {">"}, eq + 1) < Len(lower)
        THEN slice(html, v, eq) ELSE <<>>
      value(v) == closed(v, FirstOf(lower, Quotes, v))
  IN IF /\ StartsAt(lower, name, h)
        /\ ~IsWordAt(lower, h - 1)
        /\ h + Len(name) < Len(lower)
        /\ lower[h + Len(name) + 1] \in Quotes
        /\ \A x \in from..(h - 1) : lower[x + 1] # ">"
     THEN value(h + Len(name) + 1)
     ELSE <<>>

\* [^>]* is greedy: the match with the attribute furthest to the right wins
LastAttrValue(html, lower, name, from) ==
  LET at(h) == IF h = -1 THEN <<>> ELSE AttrValueAt(html, lower, name, from, h)
  IN at(MaxOr({h \in from..(Len(lower) - 1) :
                 AttrValueAt(html, lower, name, from, h) # <<>>}, -1))

\* <link[^>]*\brel=["'][^"']*\bcanonical\b[^"']*["'] matched with <link at
\* offset p and rel= at offset r: the offset after the closing quote, or -1
RelCanonicalAt(lower, p, r) ==
  LET word(c) ==
        /\ StartsAt(lower, <<"c","a","n","o","n","i","c","a","l">>, c)
        /\ ~IsWordAt(lower, c - 1)
        /\ ~IsWordAt(lower, c + 9)
      closed(cq) ==
        IF cq < Len(lower) /\ \E c \in (r + 5)..(cq - 9) : word(c) THEN cq + 1 ELSE -1
  IN IF /\ StartsAt(lower, <<"r","e","l","=">>, r)
        /\ ~IsWordAt(lower, r - 1)
        /\ r + 4 < Len(lower)
        /\ lower[r + 5] \in Quotes
        /\ \A x \in (p + 5)..(r - 1) : lower[x + 1] # ">"
     THEN closed(FirstOf(lower, Quotes, r + 5))
     ELSE -1

\* the capture of a tag pattern  <tag[^>]*ATTR[^>]*\b<name>["']([^"']+)["'][^>]*>
\* over the starts p of the tag and the offsets after(p, r) that follow ATTR
\* matched at r (-1 for no match): the leftmost p, then the rightmost r, then
\* the rightmost <name>; <<>> for no match
TagCapture(html, lower, tag, name, after(_, _)) ==
  LET valueAt(p, r) ==
        IF after(p, r) = -1 THEN <<>>
        ELSE LastAttrValue(html, lower, name, after(p, r))
      atTag(p) ==
        LET atAttr(r) == IF r = -1 THEN <<>> ELSE valueAt(p, r)
        IN atAttr(MaxOr({r \in (p + Len(tag))..(Len(lower) - 1) : valueAt(p, r) # <<>>}, -1))
      first(p) == IF p = -1 THEN <<>> ELSE atTag(p)
  IN first(MinOr({p \in 0..(Len(lower) - 1) :
                    StartsAt(lower, tag, p) /\ atTag(p) # <<>>}, -1))

\* html.match(re)?.[1] || null, with NoUrl for null
findCanonical(html) ==
  LET in(lower) ==
        LET after(p, r) == RelCanonicalAt(lower, p, r)
        IN TagCapture(html, lower, <<"<","l","i","n","k">>, <<"h","r","e","f","=">>, after)
  IN in(asciiLower(html))

\* attr is the text attrRe matches but for its quotes: property= og:url, or
\* name= twitter:url
findMetaUrl(html, attrName, attrValue) ==
  LET in(lower) ==
        LET after(p, r) ==
              IF /\ StartsAt(lower, attrName, r)
                 /\ r + Len(attrName) < Len(lower)
                 /\ lower[r + Len(attrName) + 1] \in Quotes
                 /\ StartsAt(lower, attrValue, r + Len(attrName) + 1)
                 /\ r + Len(attrName) + 1 + Len(attrValue) < Len(lower)
                 /\ lower[r + Len(attrName) + Len(attrValue) + 2] \in Quotes
                 /\ \A x \in (p + 5)..(r - 1) : lower[x + 1] # ">"
              THEN r + Len(attrName) + Len(attrValue) + 2
              ELSE -1
        IN TagCapture(html, lower, <<"<","m","e","t","a">>, <<"c","o","n","t","e","n","t","=">>, after)
  IN in(asciiLower(html))

\* /saved from url=\([^)]*\)\s*(https?:\/\/[^\s"'<>]+)/i
findSavedFromUrl(html) ==
  LET capture(u) == slice(html, u, FirstOf(html, SpaceChars \cup Quotes \cup {"<", ">"}, u))
      schemeLen(lower, u) ==
        IF StartsAt(lower, <<"h","t","t","p",":","/","/">>, u) THEN 7
        ELSE IF StartsAt(lower, <<"h","t","t","p","s",":","/","/">>, u) THEN 8 ELSE 0
      url(lower, u) ==
        IF /\ schemeLen(lower, u) > 0
           /\ Len(capture(u)) > schemeLen(lower, u)
        THEN capture(u) ELSE <<>>
      paren(lower, close) ==
        IF close = -1 THEN <<>>
        ELSE url(lower, MinOr({k \in (close + 1)..(Len(lower) - 1) :
                              lower[k + 1] \notin SpaceChars}, Len(lower)))
      at(lower, p) == paren(lower, indexOf(lower, <<")">>, p + 16))
      first(lower, p) == IF p = -1 THEN <<>> ELSE at(lower, p)
      in(lower) ==
        first(lower, MinOr({p \in 0..(Len(lower) - 1) :
                              /\ StartsAt(lower, <<"s","a","v","e","d"," ","f","r","o","m"," ","u","r","l","=","(">>, p)
                              /\ at(lower, p) # <<>>}, -1))
  IN in(asciiLower(html))


\* the candidates of extractBestUrl, in the order they are tried
candidates(html, preferCanonical) ==
  LET ordered(canonical, og, tw, savedFrom) ==
        IF preferCanonical THEN <<canonical, og, tw, savedFrom>>
        ELSE <<og, tw, canonical, savedFrom>>
  IN ordered(findCanonical(html), findMetaUrl(html, <<"p","r","o","p","e","r","t","y","=">>, <<"o","g",":","u","r","l">>),
             findMetaUrl(html, <<"n","a","m","e","=">>, <<"t","w","i","t","t","e","r",":","u","r","l">>), findSavedFromUrl(html))

\* the first candidate, in order, that is present and validates
\* (const cleaned = c && absolutizeAndValidateUrl(c))
RECURSIVE firstValid(_)
firstValid(cands) ==
  LET from(cleaned, rest) == IF cleaned # NoUrl THEN cleaned ELSE firstValid(rest)
      cleanedOf(c) == IF c = NoUrl THEN NoUrl ELSE absolutizeAndValidateUrl(c)
  IN IF cands = <<>> THEN NoUrl ELSE from(cleanedOf(Head(cands)), Tail(cands))

extractBestUrl_guessed(html, preferCanonical) == <<"h","t","t","p","s",":","/","/","a",".","c","o","/","x">>

extractBestUrl(html, preferCanonical) == firstValid(candidates(html, preferCanonical))

flattenUrl(urlStr) ==
  LET join(protocol, host, pathname) ==
        protocol \o <<"_", "_">> \o host
          \o (IF pathname # <<>> THEN <<"_">> \o pathname ELSE <<>>)
      path(pathname0) ==
        replaceChar(IF Head(pathname0) = "/" THEN Tail(pathname0) ELSE pathname0,
                    "/", <<"_">>)
          \o (IF endsWith(pathname0, <<"/">>) /\ pathname0 # <<"/">> THEN <<"_">> ELSE <<>>)
      parsed(u) ==
        join(replaceChar(u.protocol, ":", <<>>), toLowerCase(u.hostname),
             path(IF u.pathname = <<>> THEN <<"/">> ELSE u.pathname))
  IN parsed(ParseUrl(urlStr))

\* const ext = extMatch ? extMatch[0] : ".html"
extOrHtml(extMatch) == IF extMatch # <<>> THEN extMatch ELSE <<".","h","t","m","l">>

\* what maybeFixFile wants the file to be called: the punctuation-normalised
\* name when no URL is found, else the sanitised URL-derived name
desiredName(originalBase, html, preferCanonical, t) ==
  LET compose(urlStr) ==
        IF urlStr = NoUrl THEN normalizeWeirdPunctToAscii(originalBase)
        ELSE sanitizeFilename(flattenUrl(urlStr) \o <<"-">>
                                \o extractOrMakeDatetimeSuffix(originalBase, t)
                                \o extOrHtml(HtmlExtMatch(originalBase)))
  IN compose(extractBestUrl(html, preferCanonical))

\* existsFile(path.join(dir, p)): fs.access succeeds
existsFile_never(dir, p) == FALSE

existsFile(dir, p) == p \in DOMAIN dir

\* the directory after fs.rename(old, dest): the file keeps its bytes, and a
\* file that was at dest is replaced
renameIn(dir, old, dest) ==
  [n \in (DOMAIN dir \ {old}) \cup {dest} |-> IF n = dest THEN dir[old] ELSE dir[n]]

\* fs.rename throws: the destination names a directory that does not exist
renameThrows(dir, old, dest) ==
  old \notin DOMAIN dir \/ \E x \in 1..Len(dest) : dest[x] = "/"

\* if (flags.apply)
shouldRename_always(fl) == TRUE

shouldRename(fl) == fl.apply

\* `${name}-${n}${ext}`
suffixed(newBaseDesired, n) ==
  LET join(p) == p.name \o <<"-">> \o ToDecimal(n) \o p.ext
  IN join(splitNameExt(newBaseDesired))

\* ------------------------------------------------------ fix-snapshots.ts

\* ---- base64 (Buffer.from(text, "base64"), buffer.toString("base64"))

B64Alphabet ==
  <<"A","B","C","D","E","F","G","H","I","J","K","L","M","N","O","P","Q","R","S","T","U","V","W","X","Y","Z","a","b","c","d","e","f","g","h","i","j","k","l","m","n","o","p","q","r","s","t","u","v","w","x","y","z","0","1","2","3","4","5","6","7","8","9","+","/">>

B64Chars == {B64Alphabet[n] : n \in 1..64}

Whitespace == {" ", "\n", "\r", "\t"}

IsNotWhitespace(c) == c \notin Whitespace

\* text.replace(/\s+/g, "")
stripWhitespace(s) == SelectSeq(s, IsNotWhitespace)

b64Value(c) == PosIn(c, B64Alphabet) - 1

\* the 6-bit values of the characters before the first '='
sextets(s) ==
  LET upTo(pad) == [n \in 1..(IF pad = 0 THEN Len(s) ELSE pad - 1) |-> b64Value(s[n])]
  IN upTo(PosIn("=", s))

\* four 6-bit values make three bytes; a last group of three makes two bytes,
\* of two makes one, and a lone value makes none
RECURSIVE bytesOfSextets(_)
bytesOfSextets(v) ==
  IF Len(v) < 2 THEN <<>>
  ELSE IF Len(v) = 2 THEN <<v[1] * 4 + (v[2] \div 16)>>
  ELSE IF Len(v) = 3
  THEN <<v[1] * 4 + (v[2] \div 16), (v[2] % 16) * 16 + (v[3] \div 4)>>
  ELSE <<v[1] * 4 + (v[2] \div 16), (v[2] % 16) * 16 + (v[3] \div 4),
         (v[3] % 4) * 64 + v[4]>> \o bytesOfSextets(SubSeq(v, 5, Len(v)))

\* Buffer.from(b64raw, "base64")
fromBase64(s) == bytesOfSextets(sextets(s))

\* buffer.toString("base64"): three bytes make four characters, the last
\* group is padded with '='
RECURSIVE toBase64(_)
toBase64(b) ==
  IF b = <<>> THEN <<>>
  ELSE IF Len(b) = 1
  THEN <<B64Alphabet[(b[1] \div 4) + 1], B64Alphabet[(b[1] % 4) * 16 + 1], "=", "=">>
  ELSE IF Len(b) = 2
  THEN <<B64Alphabet[(b[1] \div 4) + 1],
         B64Alphabet[(b[1] % 4) * 16 + (b[2] \div 16) + 1],
         B64Alphabet[(b[2] % 16) * 4 + 1], "=">>
  ELSE <<B64Alphabet[(b[1] \div 4) + 1],
         B64Alphabet[(b[1] % 4) * 16 + (b[2] \div 16) + 1],
         B64Alphabet[(b[2] % 16) * 4 + (b[3] \div 64) + 1],
         B64Alphabet[(b[3] % 64) + 1]>> \o toBase64(SubSeq(b, 4, Len(b)))

HexDigits == <<"0","1","2","3","4","5","6","7","8","9","a","b","c","d","e","f">>

\* createHash("sha1").update(input).digest("hex"): the digest is taken to be
\* free of collisions and is written as the hex text of the hashed bytes
RECURSIVE sha1Hex(_)
sha1Hex(b) ==
  IF b = <<>> THEN <<>>
  ELSE <<HexDigits[(b[1] \div 16) + 1], HexDigits[(b[1] % 16) + 1]>>
         \o sha1Hex(Tail(b))

\* ---- sharp

\* the first byte of an encoded image tells its format: 'R' (RIFF) for WebP,
\* 'G' for GIF
formatByte(fmt) == IF fmt = <<"g","i","f">> THEN 71 ELSE 82

encodedImage(fmt, n) == [j \in 1..n |-> formatByte(fmt)]

\* least size of an encoded image, and the step by which a re-encoding may
\* shrink or grow its input
MinImage == 3

SizeStep == 3

\* the buffers sharp(input)...toBuffer() may resolve to: the encoder's output
\* is not a function the program controls, it may be smaller or larger than
\* its input.  No buffer for an empty input.
sharpOutputs(input, fmt) ==
  IF input = <<>> THEN {}
  ELSE {encodedImage(fmt, n) : n \in {m \in {Len(input) - SizeStep, Len(input) + SizeStep} : m >= MinImage}}

\* ---- the scanner of compressInlineOnce

\* the character test of the payload loop: the comparisons with '\\n', '\\r'
\* and '\\t' are with two-character strings and never hold for a character
IsPayloadChar(c) == c \in B64Chars \cup {"=", " "}

\* the offset k at which the payload loop stops
payloadEnd(html, from) ==
  MinOr({k \in from..(Len(html) - 1) : ~IsPayloadChar(html[k + 1])}, Len(html))

\* what one turn of the scanner finds from offset x: kind "none" (no marker),
\* "noSemi", "noBase64", "noComma" (a delimiter is not found, the text up to
\* end is passed through) or "span" (a data URL from start to end)
Locate(html, x) ==
  LET passed(kind, start, end) ==
        [kind |-> kind, start |-> start, end |-> end, mime |-> <<>>, b64raw |-> <<>>]
      payload(start, semi, comma, k) ==
        [kind |-> "span", start |-> start, end |-> k,
         mime |-> slice(html, start + 5, semi),
         b64raw |-> stripWhitespace(slice(html, comma + 1, k))]
      atComma(start, semi, comma) ==
        IF comma = -1 THEN passed("noComma", start, Len(html))
        ELSE payload(start, semi, comma, payloadEnd(html, comma + 1))
      atBase64(start, semi, base64Idx) ==
        IF base64Idx = -1 THEN passed("noBase64", start, semi + 1)
        ELSE atComma(start, semi, indexOf(html, <<",">>, base64Idx))
      atSemi(lower, start, semi) ==
        IF semi = -1 THEN passed("noSemi", start, Len(html))
        ELSE atBase64(start, semi, indexOf(lower, <<"b","a","s","e","6","4">>, semi + 1))
      atMarker(lower, start) ==
        IF start = -1 THEN passed("none", -1, -1)
        ELSE atSemi(lower, start, indexOf(html, <<";">>, start + 5))
      in(lower) == atMarker(lower, indexOf(lower, <<"d","a","t","a",":","i","m","a","g","e">>, x))
  IN in(toLowerCase(html))

\* `data:image/webp;base64,${webpB64}`
dataUrl(fmt, b64) == <<"d","a","t","a",":","i","m","a","g","e","/">> \o fmt \o <<";","b","a","s","e","6","4",",">> \o b64

\* if (!webpB64): the cache holds a non-empty text for the hash
cacheHit_never(known, sha) == FALSE

cacheHit(known, sha) == sha \in DOMAIN known /\ known[sha] # <<>>

\* out.push(html.slice(start, k)) of the catch handlers
caughtSpan_dropped(html, start, k) == <<>>

caughtSpan(html, start, k) == slice(html, start, k)

\* the format a span is re-encoded to
targetFormat(lowerMime, gifWebp) ==
  IF lowerMime = <<"i","m","a","g","e","/","g","i","f">> /\ ~gifWebp THEN <<"g","i","f">> ELSE <<"w","e","b","p">>

\* the outcomes of the try block of compressInlineOnce for the span sp: how it
\* ends ("kept" for an SVG, "cached", "encoded", or "failed" when the encoder
\* threw), the hash of the decoded bytes, the text it emits and the cache
\* afterwards
Reencode(html, sp, gifWebp, known) ==
  LET emitted(how, sha, text, after) ==
        [how |-> how, sha |-> sha, text |-> text, cache |-> after]
      encoded(fmt, sha, b64) ==
        emitted("encoded", sha, dataUrl(fmt, b64),
                [h \in DOMAIN known \cup {sha} |-> IF h = sha THEN b64 ELSE known[h]])
      hashed(fmt, input, sha) ==
        IF cacheHit(known, sha)
        THEN {emitted("cached", sha, dataUrl(fmt, known[sha]), known)}
        ELSE {encoded(fmt, sha, toBase64(o)) : o \in sharpOutputs(input, fmt)}
               \cup {emitted("failed", sha, caughtSpan(html, sp.start, sp.end), known)}
      decoded(fmt, input) == hashed(fmt, input, sha1Hex(input))
      typed(lowerMime) ==
        IF StartsAt(lowerMime, <<"i","m","a","g","e","/","s","v","g">>, 0)
        THEN {emitted("kept", <<>>, slice(html, sp.start, sp.end), known)}
        ELSE decoded(targetFormat(lowerMime, gifWebp), fromBase64(sp.b64raw))
  IN typed(toLowerCase(sp.mime))

\* the end of the longest run of characters of cs from offset from
runEnd(s, cs, from) ==
  MinOr({k \in from..(Len(s) - 1) : s[k + 1] \notin cs}, Len(s))

\* ---- strip filters

\* s.replace(/<script\b[\s\S]*?<\/script>/gi, ""), from offset from of s
RECURSIVE stripScriptsFrom(_, _, _)
stripScriptsFrom(s, lower, from) ==
  LET close(p) == indexOf(lower, <<"<","/","s","c","r","i","p","t",">">>, p + 7)
      isWordChar(c) == c \in B64Chars \ {"+", "/"} \/ c = "_"
      opensAt(p) ==
        /\ StartsAt(lower, <<"<","s","c","r","i","p","t">>, p)
        /\ (p + 7 < Len(lower) => ~isWordChar(lower[p + 8]))
        /\ close(p) # -1
      at(p) ==
        IF p = -1 THEN sliceFrom(s, from)
        ELSE slice(s, from, p) \o stripScriptsFrom(s, lower, close(p) + 9)
  IN at(MinOr({p \in from..(Len(lower) - 1) : opensAt(p)}, -1))

stripScripts(s) == stripScriptsFrom(s, asciiLower(s), 0)

\* the offset after the match of <tag\b[^>]*>[\s\S]*?</tag> that starts at
\* offset p of lower, -1 for no match; open is "<tag" and close is "</tag>"
blockEnd(lower, open, close, p) ==
  LET closed(c) == IF c = -1 THEN -1 ELSE c + Len(close)
      tagEnd(g) == IF g = -1 THEN -1 ELSE closed(indexOf(lower, close, g + 1))
  IN IF /\ StartsAt(lower, open, p)
        /\ p + Len(open) < Len(lower)
        /\ lower[p + Len(open) + 1] \notin WordChars
     THEN tagEnd(indexOf(lower, <<">">>, p + Len(open)))
     ELSE -1

\* s.replace(/<style\b[^>]*>[\s\S]*?<\/style>/gi, (block) =>
\*   block.length > threshold ? "" : block), from offset from of s
RECURSIVE stripLargeStyleBlocksFrom(_, _, _, _)
stripLargeStyleBlocksFrom(s, lower, threshold, from) ==
  LET end(p) == blockEnd(lower, <<"<","s","t","y","l","e">>, <<"<","/","s","t","y","l","e",">">>, p)
      at(p) ==
        IF p = -1 THEN sliceFrom(s, from)
        ELSE slice(s, from, p)
               \o (IF end(p) - p > threshold THEN <<>> ELSE slice(s, p, end(p)))
               \o stripLargeStyleBlocksFrom(s, lower, threshold, end(p))
  IN at(MinOr({p \in from..(Len(lower) - 1) : end(p) # -1}, -1))

stripLargeStyleBlocks(s, threshold) ==
  stripLargeStyleBlocksFrom(s, asciiLower(s), threshold, 0)

\* s.replace(/@font-face\s*\{[^}]*\}/gsi, (block) =>
\*   /data:\s*application\/font|data:\s*font\//i.test(block) ? "" : block)
RECURSIVE stripFontFacesFrom(_, _, _)
stripFontFacesFrom(s, lower, from) ==
  LET closed(e) == IF e = -1 THEN -1 ELSE e + 1
      body(b) ==
        IF b < Len(lower) /\ lower[b + 1] = "{"
        THEN closed(indexOf(lower, <<"}">>, b + 1)) ELSE -1
      \* the offset after the match at offset p, or -1
      end(p) ==
        IF StartsAt(lower, <<"@","f","o","n","t","-","f","a","c","e">>, p)
        THEN body(runEnd(lower, SpaceChars, p + 10)) ELSE -1
      embedsFont(block) ==
        \E d \in 0..(Len(block) - 1) :
          /\ StartsAt(block, <<"d","a","t","a",":">>, d)
          /\ LET after(e) == \/ StartsAt(block, <<"a","p","p","l","i","c","a","t","i","o","n","/","f","o","n","t">>, e)
                             \/ StartsAt(block, <<"f","o","n","t","/">>, e)
             IN after(runEnd(block, SpaceChars, d + 5))
      at(p) ==
        IF p = -1 THEN sliceFrom(s, from)
        ELSE slice(s, from, p)
               \o (IF embedsFont(slice(lower, p, end(p))) THEN <<>>
                   ELSE slice(s, p, end(p)))
               \o stripFontFacesFrom(s, lower, end(p))
  IN at(MinOr({p \in from..(Len(lower) - 1) : end(p) # -1}, -1))

\* s.replace(/url\(\s*data:[^)]+\)/gsi, (m) =>
\*   (/font|woff|otf|ttf/i.test(m) ? "" : m))
RECURSIVE stripFontUrlsFrom(_, _, _)
stripFontUrlsFrom(s, lower, from) ==
  LET closed(d, c) == IF c = -1 \/ c = d THEN -1 ELSE c + 1
      data(d) ==
        IF StartsAt(lower, <<"d","a","t","a",":">>, d)
        THEN closed(d + 5, indexOf(lower, <<")">>, d + 5)) ELSE -1
      \* the offset after the match at offset p, or -1
      end(p) ==
        IF StartsAt(lower, <<"u","r","l","(">>, p)
        THEN data(runEnd(lower, SpaceChars, p + 4)) ELSE -1
      namesFont(m) ==
        \E d \in 0..(Len(m) - 1) :
          \/ StartsAt(m, <<"f","o","n","t">>, d) \/ StartsAt(m, <<"w","o","f","f">>, d)
          \/ StartsAt(m, <<"o","t","f">>, d) \/ StartsAt(m, <<"t","t","f">>, d)
      at(p) ==
        IF p = -1 THEN sliceFrom(s, from)
        ELSE slice(s, from, p)
               \o (IF namesFont(slice(lower, p, end(p))) THEN <<>>
                   ELSE slice(s, p, end(p)))
               \o stripFontUrlsFrom(s, lower, end(p))
  IN at(MinOr({p \in from..(Len(lower) - 1) : end(p) # -1}, -1))

stripEmbeddedFonts(s) ==
  LET urls(t) == stripFontUrlsFrom(t, asciiLower(t), 0)
  IN urls(stripFontFacesFrom(s, asciiLower(s), 0))

\* s.replace(re, "") for the pattern
\* <iframe\b[^>]*name=["']__privateStripeMetricsController[^>]*>[\s\S]*?<\/iframe>
RECURSIVE stripStripeNamedFrom(_, _, _)
stripStripeNamedFrom(s, lower, from) ==
  LET controller == <<"_","_","p","r","i","v","a","t","e","s","t","r","i","p","e","m","e","t","r","i","c","s","c","o","n","t","r","o","l","l","e","r">>
      named(p, g) ==
        \E a \in (p + 7)..(g - 1) :
          /\ StartsAt(lower, <<"n","a","m","e","=">>, a)
          /\ lower[a + 6] \in Quotes
          /\ StartsAt(lower, controller, a + 6)
          /\ a + 6 + Len(controller) <= g
      tag(p, g, e) == IF e # -1 /\ named(p, g) THEN e ELSE -1
      \* the offset after the match at offset p, or -1
      end(p) == tag(p, indexOf(lower, <<">">>, p + 7),
                    blockEnd(lower, <<"<","i","f","r","a","m","e">>, <<"<","/","i","f","r","a","m","e",">">>, p))
      at(p) ==
        IF p = -1 THEN sliceFrom(s, from)
        ELSE slice(s, from, p) \o stripStripeNamedFrom(s, lower, end(p))
  IN at(MinOr({p \in from..(Len(lower) - 1) : end(p) # -1}, -1))

\* s.replace(re, "") for the pattern
\* <iframe\b[^>]*?(?:src|srcdoc)=["'][^"']*stripe\.com[^>]*>[\s\S]*?<\/iframe>
\* [^>]*? takes the first attribute a that leads to a match, [^"']* the last
\* stripe.com c in it that does
RECURSIVE stripStripeSrcFrom(_, _, _)
stripStripeSrcFrom(s, lower, from) ==
  LET closed(e) == IF e = -1 THEN -1 ELSE e + 9
      tagEnd(g) == IF g = -1 THEN -1 ELSE closed(indexOf(lower, <<"<","/","i","f","r","a","m","e",">">>, g + 1))
      endAt(c) == tagEnd(indexOf(lower, <<">">>, c + 10))
      valueStart(a) ==
        IF StartsAt(lower, <<"s","r","c","=">>, a) THEN a + 4
        ELSE IF StartsAt(lower, <<"s","r","c","d","o","c","=">>, a) THEN a + 7 ELSE -1
      sites(v) ==
        IF v = -1 \/ v >= Len(lower) \/ lower[v + 1] \notin Quotes THEN {}
        ELSE {c \in (v + 1)..(Len(lower) - 1) :
                /\ StartsAt(lower, <<"s","t","r","i","p","e",".","c","o","m">>, c)
                /\ \A x \in (v + 1)..(c - 1) : lower[x + 1] \notin Quotes
                /\ endAt(c) # -1}
      attrs(p) ==
        {a \in (p + 7)..(Len(lower) - 1) :
           /\ \A x \in (p + 7)..(a - 1) : lower[x + 1] # ">"
           /\ sites(valueStart(a)) # {}}
      first(a) == IF a = -1 THEN -1 ELSE endAt(Max(sites(valueStart(a))))
      \* the offset after the match at offset p, or -1
      end(p) ==
        IF /\ StartsAt(lower, <<"<","i","f","r","a","m","e">>, p)
           /\ p + 7 < Len(lower)
           /\ lower[p + 8] \notin WordChars
        THEN first(MinOr(attrs(p), -1)) ELSE -1
      at(p) ==
        IF p = -1 THEN sliceFrom(s, from)
        ELSE slice(s, from, p) \o stripStripeSrcFrom(s, lower, end(p))
  IN at(MinOr({p \in from..(Len(lower) - 1) : end(p) # -1}, -1))

stripStripeIframes(s) ==
  LET src(t) == stripStripeSrcFrom(t, asciiLower(t), 0)
  IN src(stripStripeNamedFrom(s, asciiLower(s), 0))

\* ---- dataImageRe and extractImagesToAssets

MimeChars == (B64Chars \ {"/"}) \cup {".", "-"}

\* the match of dataImageRe that starts at offset p of s, start = -1 for none.
\* After the mime type, (?:;[^,]*)?;\s*base64\s*, can only end at the first
\* comma, and then ([A-Za-z0-9+/=\s]+) takes the longest run.
ReMatchAt(s, lower, p) ==
  LET isBase64Tag(j, comma) ==
        /\ lower[j + 1] = ";"
        /\ trim(slice(lower, j + 1, comma)) = <<"b","a","s","e","6","4">>
      payload(mimeEnd, comma, e) ==
        IF e = comma + 1 THEN [start |-> -1]
        ELSE [start |-> p, end |-> e, mime |-> slice(s, p + 5, mimeEnd),
              b64 |-> slice(s, comma + 1, e)]
      atComma(mimeEnd, comma) ==
        IF comma = -1 \/ ~(\E j \in mimeEnd..(comma - 1) : isBase64Tag(j, comma))
        THEN [start |-> -1]
        ELSE payload(mimeEnd, comma,
                     runEnd(s, B64Chars \cup {"="} \cup Whitespace, comma + 1))
      mime(mimeEnd) ==
        IF mimeEnd = p + 11 \/ mimeEnd >= Len(s) \/ s[mimeEnd + 1] # ";"
        THEN [start |-> -1]
        ELSE atComma(mimeEnd, indexOf(s, <<",">>, mimeEnd))
  IN IF ~StartsAt(lower, <<"d","a","t","a",":","i","m","a","g","e","/">>, p) THEN [start |-> -1]
     ELSE mime(runEnd(s, MimeChars, p + 11))

\* the matches global.exec collects from offset from, in order
RECURSIVE ReMatchesFrom(_, _, _)
ReMatchesFrom(s, lower, from) ==
  LET next(m) == <<m>> \o ReMatchesFrom(s, lower, m.end)
      at(p) == IF p = -1 THEN <<>> ELSE next(ReMatchAt(s, lower, p))
  IN at(MinOr({p \in from..(Len(s) - 1) : ReMatchAt(s, lower, p).start # -1}, -1))

dataImageRe_matches(s) == ReMatchesFrom(s, asciiLower(s), 0)

includes(s, lit) == indexOf(s, lit, 0) # -1

extFromMime(mime) ==
  LET of(m) ==
        IF includes(m, <<"s","v","g">>) THEN <<".","s","v","g">>
        ELSE IF includes(m, <<"g","i","f">>) THEN <<".","g","i","f">>
        ELSE IF includes(m, <<"p","n","g">>) THEN <<".","p","n","g">>
        ELSE IF includes(m, <<"j","p","e","g">>) \/ includes(m, <<"j","p","g">>) THEN <<".","j","p","g">>
        ELSE IF includes(m, <<"w","e","b","p">>) THEN <<".","w","e","b","p">>
        ELSE <<>>
  IN of(toLowerCase(mime))

\* the slug of the document path: basename(fullPath) without ".html"
Slug == <<"s","n","a","p">>

relPathOf_unnumbered(count, sha, ext) ==
  <<"a","s","s","e","t","s","/","s","n","a","p","s","h","o","t","s","/">> \o Slug \o <<"/","i","m","g","-","0","0","0","0","-">> \o sha \o ext

\* join(ASSET_ROOT, slug, `img-${String(extracted).padStart(4, "0")}-${sha}${ext}`)
relPathOf(count, sha, ext) ==
  LET padStart4(d) == [n \in 1..(4 - Len(d)) |-> "0"] \o d
  IN <<"a","s","s","e","t","s","/","s","n","a","p","s","h","o","t","s","/">> \o Slug \o <<"/","i","m","g","-">> \o padStart4(ToDecimal(count))
       \o <<"-">> \o sha \o ext

\* what the callback of replaceAsync does with one match m of s: how it ends
\* ("kept", "encoded", "failed" when the encoder threw, "cached", or
\* "unwritten" when Bun.write threw), the text it returns, the asset file it
\* writes (path <<>> for none) and the cache afterwards
ExtractOne(s, m, gifWebp, count, known) ==
  LET returned(how, sha, text, path, bytes, after) ==
        [how |-> how, sha |-> sha, text |-> text, path |-> path, bytes |-> bytes,
         cache |-> after]
      written(how, sha, relPath, outBuf) ==
        returned(how, sha, <<"/">> \o relPath, relPath, outBuf,
                 [h \in DOMAIN known \cup {sha} |-> IF h = sha THEN relPath ELSE known[h]])
      \* outBuf and ext after the inner try blocks: the encoder's buffer, or
      \* the decoded bytes themselves when the encoder threw or for an SVG
      outputs(buf, fmt, isSvg) ==
        IF isSvg THEN {[how |-> "kept", outBuf |-> buf, ext |-> extFromMime(m.mime)]}
        ELSE {[how |-> "encoded", outBuf |-> o, ext |-> <<".">> \o fmt] :
                o \in sharpOutputs(buf, fmt)}
               \cup {[how |-> "failed", outBuf |-> buf, ext |-> extFromMime(m.mime)]}
      write(sha, r) ==
        {written(r.how, sha, relPathOf(count, sha, r.ext), r.outBuf),
         returned("unwritten", sha, slice(s, m.start, m.end), <<>>, <<>>, known)}
      hashed(buf, sha, lowerMime) ==
        IF sha \in DOMAIN known /\ known[sha] # <<>>
        THEN {returned("cached", sha, <<"/">> \o known[sha], <<>>, <<>>, known)}
        ELSE UNION {write(sha, r) :
                      r \in outputs(buf, targetFormat(lowerMime, gifWebp),
                                    StartsAt(lowerMime, <<"i","m","a","g","e","/","s","v","g">>, 0))}
      decoded(buf) == hashed(buf, sha1Hex(buf), toLowerCase(m.mime))
  IN decoded(fromBase64(stripWhitespace(m.b64)))

\* ---------------------------------------------------- bounds and inputs

MaxFiles == 2

MaxClock == 1

NoSignals == <<"<","p",">","x","<","/","p",">">>

\* the documents a directory may hold: the text, and whether readFile
\* succeeds
Docs ==
  { [html |-> NoSignals, readable |-> TRUE],
    [html |-> <<"<","l","i","n","k"," ","r","e","l","=","\"","c","a","n","o","n","i","c","a","l","\""," ","h","r","e","f","=","\"","h","t","t","p","s",":","/","/","a",".","c","o","/","x","\"",">">>, readable |-> TRUE],
    [html |-> NoSignals, readable |-> FALSE] }

\* parseArgs: the command lines tried
FlagChoices ==
  { [apply |-> FALSE, quiet |-> FALSE, preferCanonical |-> TRUE],
    [apply |-> TRUE, quiet |-> FALSE, preferCanonical |-> TRUE],
    [apply |-> TRUE, quiet |-> TRUE, preferCanonical |-> FALSE] }

\* the names a directory may hold before the first run
InitNames ==
  << <<"p","-","2","0","2","5","-","0","9","-","0","7","T","1","4","_","5","0","_","5","5","_","0","0","0","Z",".","h","t","m","l">>,
     <<"q","-","2","0","2","5","-","0","9","-","0","7","T","1","4","FW_COLON","5","0","FW_COLON","5","5",".","0","0","0","Z",".","h","t","m","l">>,
     <<"p",".","z","i","p",".","h","t","m","l">>,
     <<"h","t","t","p","s","_","a",".","c","o","_","x","-","2","0","2","5","-","0","9","-","0","7","T","1","4","_","5","0","_","5","5","_","0","0","0","Z",".","h","t","m","l">>,
     <<"h","t","t","p","s","_","a",".","c","o","_","x","-","2","0","2","5","-","0","9","-","0","7","T","1","4","_","5","0","_","5","5","_","0","0","0","Z",".","z","i","p",".","h","t","m","l">>,
     <<"q","-","2","0","2","5","-","0","9","-","0","7","T","1","4",":","5","0",":","5","5",".","0","0","0","Z",".","h","t","m","l">> >>

NoCur == [oldBase |-> <<>>, desired |-> <<>>, candidate |-> <<>>, n |-> 0]

\* the command lines tried for fix-snapshots.ts; target = -1 stands for no
\* --targetBytes
Opt(quality, maxWidth, target, strip, extract, gifWebp) ==
  [quality |-> quality, maxWidth |-> maxWidth, target |-> target,
   stripScripts |-> strip, extract |-> extract, gifWebp |-> gifWebp]

CompactOptions ==
  { Opt(70, 1600, -1, FALSE, FALSE, FALSE),
    Opt(70, 1600, 1, FALSE, FALSE, FALSE),
    Opt(45, 1100, 1, FALSE, FALSE, TRUE),
    Opt(30, 900, 1, TRUE, FALSE, FALSE),
    Opt(70, 1600, 60, TRUE, FALSE, FALSE),
    Opt(70, 1600, -1, TRUE, FALSE, FALSE),
    Opt(70, 1600, -1, FALSE, TRUE, FALSE),
    Opt(70, 1600, -1, FALSE, TRUE, TRUE) }

\* a PNG of 27 bytes and one of 6 bytes, as base64
BigPayload == <<"i","V","B","O","i","V","B","O","i","V","B","O","i","V","B","O","i","V","B","O","i","V","B","O","i","V","B","O","i","V","B","O","i","V","B","O">>

SmallPayload == <<"i","V","B","O","i","V","B","O">>

\* a document that an earlier run has compacted: its only image is a WebP
\* that the encoder wrote
CompactedDocument ==
  <<"<","i","m","g"," ","s","r","c","=","\"">> \o dataUrl(<<"w","e","b","p">>, toBase64(encodedImage(<<"w","e","b","p">>, 6))) \o <<"\"",">">>

\* the documents a run may be given; one begins with a capital I with a dot
\* above, one has the same bytes declared as a
\* GIF and as a PNG, one has a payload wrapped over two lines, two hold the words data:image in their text before an embedded SVG
\* and an embedded GIF
Documents ==
  { CompactedDocument,
    <<"DOTTED_I","<","i","m","g"," ","s","r","c","=","\"","d","a","t","a",":","i","m","a","g","e","/","p","n","g",";","b","a","s","e","6","4",",","i","V","B","O","i","V","B","O","\"",">">>,
    <<"<","i","m","g"," ","s","r","c","=","\"","d","a","t","a",":","i","m","a","g","e","/","g","i","f",";","b","a","s","e","6","4",",","R","0","l","G","\"",">","<","i","m","g"," ","s","r","c","=","\"","d","a","t","a",":","i","m","a","g","e","/","p","n","g",";","b","a","s","e","6","4",",","R","0","l","G","\"",">">>,
    <<"<","i","m","g"," ","s","r","c","=","\"","d","a","t","a",":","i","m","a","g","e","/","p","n","g",";","b","a","s","e","6","4",",","i","V","B","O"," ","i","V","B","O","\n","i","V","B","O","\"",">">>,
    <<"<","i","m","g"," ","s","r","c","=","\"","d","a","t","a",":","i","m","a","g","e","/","p","n","g",";","b","a","s","e","6","4",",">> \o BigPayload \o <<"\"",">">>,
    <<"<","i","m","g"," ","s","r","c","=","\"","d","a","t","a",":","i","m","a","g","e","/","p","n","g",";","b","a","s","e","6","4",",">> \o SmallPayload
      \o <<"\"",">","<","i"," ","s","t","y","l","e","=","\"","b","a","c","k","g","r","o","u","n","d",":","u","r","l","(","d","a","t","a",":","i","m","a","g","e","/","j","p","e","g",";","b","a","s","e","6","4",",">> \o SmallPayload
      \o <<")","\"",">">>,
    <<"<","i","m","g"," ","s","r","c","=","\"","d","a","t","a",":","i","m","a","g","e","/","p","n","g","\""," ","a","l","t","=","\"","x","\"",">","<","i","m","g"," ","s","r","c","=","\"","d","a","t","a",":","i","m","a","g","e","/","j","p","e","g",";","b","a","s","e","6","4",",">>
      \o SmallPayload \o <<"\"",">">>,
    <<"<","i","m","g"," ","s","r","c","=","\"","d","a","t","a",":","i","m","a","g","e","/","g","i","f",";","b","a","s","e","6","4",",","R","0","l","G","\"",">","<","i","m","g"," ","s","r","c","=","\"","d","a","t","a",":","i","m","a","g","e","/","s","v","g","+","x","m","l",";","b","a","s","e","6","4",",","P","H","N","2","\"",">","<","i","m","g"," ","s","r","c","=","\"","d","a","t","a",":","i","m","a","g","e","/","p","n","g",";","b","a","s","e","6","4",",","R","0","l","G","\"",">">>,
    <<"<","s","c","r","i","p","t",">","x","<","/","s","c","r","i","p","t",">","<","i","m","g"," ","s","r","c","=","\"","d","a","t","a",":","i","m","a","g","e","/","p","n","g",";","b","a","s","e","6","4",",">> \o BigPayload \o <<"\"",">">>,
    <<"<","p",">","x","<","/","p",">","<","i","m","g"," ","s","r","c","=","\"","d","a","t","a",":","i","m","a","g","e","/","p","n","g",";","b","a","s","e","6","4",",","i","V","B">>,
    <<"<","i",">","d","a","t","a",":","i","m","a","g","e","/","p","n","g",";","x","<","/","i",">">>,
    <<"<","i",">","d","a","t","a",":","i","m","a","g","e","<","/","i",">">>,
    <<"<","i",">","d","a","t","a",":","i","m","a","g","e","/","p","n","g",";","b","a","s","e","6","4","<","/","i",">">>,
    <<"<","b",">","d","a","t","a",":","i","m","a","g","e","<","/","b",">","<","i","m","g"," ","s","r","c","=","\"","d","a","t","a",":","i","m","a","g","e","/","s","v","g","+","x","m","l",";","b","a","s","e","6","4",",","P","H","N","2","\"",">">>,
    <<"<","b",">","d","a","t","a",":","i","m","a","g","e","<","/","b",">","<","i","m","g"," ","s","r","c","=","\"","d","a","t","a",":","i","m","a","g","e","/","g","i","f",";","b","a","s","e","6","4",",","R","0","l","G","\"",">">> }

NoEvents == <<>>

EmptyCache == <<>>

CompactIdle ==
  /\ disk = <<>> /\ disk0 = <<>> /\ assets = {} /\ opts = Opt(0, 0, -1, FALSE, FALSE, FALSE)
  /\ pc = "off" /\ current = <<>> /\ pass = 0 /\ q = 0 /\ w = 0
  /\ targetBytes = 0 /\ before = 0 /\ delta = 0 /\ lastReplacements = 0
  /\ loopState = "Running" /\ i = 0 /\ out = <<>> /\ replaced = 0
  /\ cache = EmptyCache /\ matches = <<>> /\ extracted = 0
  /\ events = NoEvents /\ writes = 0

CanonIdle ==
  /\ fs = <<>> /\ fs0 = <<>> /\ docOf = <<>>
  /\ flags = [apply |-> FALSE, quiet |-> FALSE, preferCanonical |-> TRUE]
  /\ now = 0 /\ run = 0 /\ pending = {} /\ cpc = "off" /\ cur = NoCur
  /\ fsAtCall = <<>> /\ renames = 0 /\ overwrote = FALSE /\ log = {}

\* a document with a canonical link and an Open Graph URL, and the same
\* document with the link's href written before its rel
CanonicalAndOpenGraph ==
  <<"<","l","i","n","k"," ","r","e","l","=","\"","c","a","n","o","n","i","c","a","l","\""," ","h","r","e","f","=","\"","h","t","t","p","s",":","/","/","e","x",".","c","o","m","/","a","\"",">","<","m","e","t","a"," ","p","r","o","p","e","r","t","y","=","\"","o","g",":","u","r","l","\""," ","c","o","n","t","e","n","t","=","\"","h","t","t","p","s",":","/","/","e","x",".","c","o","m","/","b","\"",">">>

HrefBeforeRel ==
  <<"<","l","i","n","k"," ","h","r","e","f","=","\"","h","t","t","p","s",":","/","/","e","x",".","c","o","m","/","a","\""," ","r","e","l","=","\"","c","a","n","o","n","i","c","a","l","\"",">","<","m","e","t","a"," ","p","r","o","p","e","r","t","y","=","\"","o","g",":","u","r","l","\""," ","c","o","n","t","e","n","t","=","\"","h","t","t","p","s",":","/","/","e","x",".","c","o","m","/","b","\"",">">>

OpenGraphOnly ==
  <<"<","m","e","t","a"," ","p","r","o","p","e","r","t","y","=","\"","o","g",":","u","r","l","\""," ","c","o","n","t","e","n","t","=","\"","h","t","t","p","s",":","/","/","e","x",".","c","o","m","/","b","_","_","\"",">">>

\* the documents maybeFixFile is tried on: a canonical link and an Open Graph
\* URL; the same with href before rel; an unusable canonical link, a
\* twitter:url with port, query and fragment, and a saved-from comment; a
\* saved-from comment alone; signals that are no http(s) URL; no signal; a
\* canonical link to the root path; a canonical link in full-width
\* punctuation with blanks around it; an Open Graph URL alone, its path with
\* the delimiter in it
Pages ==
  { CanonicalAndOpenGraph,
    HrefBeforeRel,
    OpenGraphOnly,
    <<"<","l","i","n","k"," ","r","e","l","=","\"","c","a","n","o","n","i","c","a","l","\""," ","h","r","e","f","=","\"","/","a","\"",">","<","m","e","t","a"," ","n","a","m","e","=","\"","t","w","i","t","t","e","r",":","u","r","l","\""," ","c","o","n","t","e","n","t","=","\"","H","T","T","P","S",":","/","/","E","x",".","c","o","m",":","8","0","8","0","/","b","/","?","q","=","1","#","f","\"",">","<","!","-","-"," ","s","a","v","e","d"," ","f","r","o","m"," ","u","r","l","=","(","0","0","1","6",")","h","t","t","p","s",":","/","/","e","x",".","c","o","m","/","s"," ","-","-",">">>,
    <<"<","!","-","-"," ","s","a","v","e","d"," ","f","r","o","m"," ","u","r","l","=","(","0","0","1","7",")","h","t","t","p","s",":","/","/","e","x",".","c","o","m","/","x","_"," ","-","-",">">>,
    <<"<","m","e","t","a"," ","p","r","o","p","e","r","t","y","=","\"","o","g",":","u","r","l","\""," ","c","o","n","t","e","n","t","=","\"","f","t","p",":","/","/","e","x",".","c","o","m","/","b","\"",">","<","l","i","n","k"," ","r","e","l","=","\"","c","a","n","o","n","i","c","a","l","\""," ","h","r","e","f","=","\"","m","a","i","l","t","o",":","a","@","e","x",".","c","o","m","\"",">">>,
    NoSignals,
    <<"<","l","i","n","k"," ","r","e","l","=","\"","c","a","n","o","n","i","c","a","l","\""," ","h","r","e","f","=","\"","h","t","t","p","s",":","/","/","e","x",".","c","o","m","\"",">">>,
    <<"<","l","i","n","k"," ","r","e","l","=","\"","c","a","n","o","n","i","c","a","l","\""," ","h","r","e","f","=","\""," ","h","t","t","p","s","FW_COLON","/","/","e","x",".","c","o","m","/","a","?","x"," ","\"",">">> }

\* the names maybeFixFile is tried on: a timestamp before each of the
\* extensions of HTML_EXT_RE, with and without milliseconds, and none
BaseNames ==
  { <<"p","-","2","0","2","5","-","0","9","-","0","7","T","1","4","_","5","0","_","5","5","Z",".","h","t","m","l">>,
    <<"p","-","2","0","2","5","-","0","9","-","0","7","T","1","4","_","5","0","_","5","5","_","0","0","0","Z",".","h","t","m","l">>,
    <<"q","-","2","0","2","5","-","0","9","-","0","7","T","1","4","FW_COLON","5","0","FW_COLON","5","5",".","0","0","0","Z",".","z","i","p">>,
    <<"p","-","2","0","2","5","-","0","9","-","0","7","T","1","4","_","5","0","_","5","5","_","0","0","0","Z",".","z","i","p",".","h","t","m","l">>,
    <<"p","-","2","0","2","5","-","0","9","-","0","7","T","1","4","_","5","0","_","5","5","Z",".","u",".","z","i","p",".","h","t","m","l">>,
    <<"p",".","h","t","m","l">> }

NameIdle ==
  /\ nHtml = <<>> /\ nBase = <<>> /\ nPrefer = TRUE /\ nClock = 0 /\ npc = "off"
  /\ nLeft = <<>> /\ nUrl = NoUrl /\ flatUrlBase = <<>> /\ dtSuffix = <<>>
  /\ newBase = <<>>

\* ------------------------------------------------------- Canonicalizer

CanonInit ==
  /\ \E K \in SUBSET (1..Len(InitNames)) :
       /\ K # {} /\ Cardinality(K) <= MaxFiles
       /\ fs = [n \in {InitNames[k] : k \in K} |->
                  CHOOSE k \in K : InitNames[k] = n]
       /\ docOf \in [K -> Docs]
  /\ fs0 = fs
  /\ flags \in FlagChoices
  /\ now = 0
  /\ run = 0
  /\ pending = {}
  /\ cpc = "idle"
  /\ cur = NoCur
  /\ fsAtCall = fs
  /\ renames = 0
  /\ overwrote = FALSE
  /\ log = {}
  /\ CompactIdle
  /\ NameIdle
  /\ workers = <<>>
  /\ strips = <<>>
  /\ proc = <<>>

logLine_silent(tag, from, to) == log

\* console.log / console.error unless --quiet
logLine(tag, from, to) ==
  IF flags.quiet THEN log ELSE log \cup {[tag |-> tag, from |-> from, to |-> to]}

\* processDir: walk reads the directory
ProcessDir ==
  /\ cpc = "idle"
  /\ run < 2
  /\ run' = run + 1
  /\ pending' = DOMAIN fs
  /\ cpc' = "walk"
  /\ renames' = 0
  /\ cur' = NoCur
  /\ UNCHANGED <<fs, fs0, docOf, flags, now, fsAtCall, overwrote, log>>
  /\ UNCHANGED <<compactVars, nameVars, workers, strips, proc>>

\* time passes
Tick ==
  /\ cpc = "walk"
  /\ pending # {}
  /\ now < MaxClock
  /\ now' = now + 1
  /\ UNCHANGED <<fs, fs0, docOf, flags, run, pending, cpc, cur, fsAtCall,
                 renames, overwrote, log>>
  /\ UNCHANGED <<compactVars, nameVars, workers, strips, proc>>

\* processDir takes the next entry of walk and runs maybeFixFile up to its
\* call of dedupeAndMaybeRename
NextFile ==
  /\ cpc = "walk"
  /\ \E file \in pending :
       /\ pending' = pending \ {file}
       /\ fsAtCall' = fs
       /\ IF ~HTML_EXT_RE_test(file)
          THEN /\ cur' = NoCur
               /\ UNCHANGED <<cpc, log>>
          ELSE IF file \notin DOMAIN fs \/ ~docOf[fs[file]].readable
          THEN /\ cur' = NoCur
               /\ log' = logLine("ERR", file, <<>>)
               /\ UNCHANGED cpc
          ELSE \E d \in {desiredName(file, docOf[fs[file]].html,
                                      flags.preferCanonical, now)} :
                 IF d = file
                 THEN cur' = NoCur /\ UNCHANGED <<cpc, log>>
                 ELSE /\ cur' = [oldBase |-> file, desired |-> d,
                                 candidate |-> d, n |-> 2]
                      /\ cpc' = "dedupe"
                      /\ UNCHANGED log
  /\ UNCHANGED <<fs, fs0, docOf, flags, now, run, renames, overwrote>>
  /\ UNCHANGED <<compactVars, nameVars, workers, strips, proc>>

\* one turn of the loop of dedupeAndMaybeRename, up to the rename
DedupeProbe ==
  /\ cpc = "dedupe"
  /\ IF cur.candidate = cur.oldBase
     THEN cpc' = "report" /\ UNCHANGED cur
     ELSE IF ~existsFile(fs, cur.candidate)
     THEN cpc' = (IF shouldRename(flags) THEN "rename" ELSE "report") /\ UNCHANGED cur
     ELSE /\ cur' = [cur EXCEPT !.candidate = suffixed(cur.desired, cur.n),
                                !.n = cur.n + 1]
          /\ UNCHANGED cpc
  /\ UNCHANGED <<fs, fs0, docOf, flags, now, run, pending, fsAtCall, renames,
                 overwrote, log>>
  /\ UNCHANGED <<compactVars, nameVars, workers, strips, proc>>

\* await fs.rename(path.join(dir, oldBase), destPath)
DedupeRename ==
  /\ cpc = "rename"
  /\ IF renameThrows(fs, cur.oldBase, cur.candidate)
     THEN /\ cpc' = "walk"
          /\ cur' = NoCur
          /\ log' = logLine("ERR", cur.oldBase, <<>>)
          /\ UNCHANGED <<fs, renames, overwrote>>
     ELSE /\ fs' = renameIn(fs, cur.oldBase, cur.candidate)
          /\ overwrote' = (overwrote \/ cur.candidate \in DOMAIN fs)
          /\ renames' = renames + 1
          /\ cpc' = "report"
          /\ UNCHANGED <<cur, log>>
  /\ UNCHANGED <<fs0, docOf, flags, now, run, pending, fsAtCall>>
  /\ UNCHANGED <<compactVars, nameVars, workers, strips, proc>>

\* logChange after dedupeAndMaybeRename returned
LogChange ==
  /\ cpc = "report"
  /\ log' = logLine(IF flags.apply THEN "RENAME" ELSE "DRYRUN",
                    cur.oldBase, cur.candidate)
  /\ cpc' = "walk"
  /\ cur' = NoCur
  /\ UNCHANGED <<fs, fs0, docOf, flags, now, run, pending, fsAtCall,
                 renames, overwrote>>
  /\ UNCHANGED <<compactVars, nameVars, workers, strips, proc>>

\* walk is exhausted: processDir returns
EndRun ==
  /\ cpc = "walk"
  /\ pending = {}
  /\ cpc' = "idle"
  /\ UNCHANGED <<fs, fs0, docOf, flags, now, run, pending, cur, fsAtCall,
                 renames, overwrote, log>>
  /\ UNCHANGED <<compactVars, nameVars, workers, strips, proc>>

CanonNext ==
  \/ ProcessDir
  \/ Tick
  \/ NextFile
  \/ DedupeProbe
  \/ DedupeRename
  \/ LogChange
  \/ EndRun

Spec == CanonInit /\ [][CanonNext]_vars

\* ----------------------------------------------------------- Compactor

\* the document file as it is on disk and the command line, before main runs
CompactInit ==
  /\ disk \in Documents
  /\ disk0 = disk
  /\ assets = {}
  /\ opts \in CompactOptions
  /\ pc = "start" /\ current = <<>> /\ pass = 0 /\ q = 0 /\ w = 0
  /\ targetBytes = 0 /\ before = 0 /\ delta = 0 /\ lastReplacements = 0
  /\ loopState = "Running" /\ i = 0 /\ out = <<>> /\ replaced = 0
  /\ cache = EmptyCache /\ matches = <<>> /\ extracted = 0
  /\ events = NoEvents /\ writes = 0
  /\ CanonIdle
  /\ NameIdle
  /\ workers = <<>>
  /\ strips = <<>>
  /\ proc = <<>>

\* the text after the selected strip filters
stripped(original, o) == IF o.stripScripts THEN stripScripts(original) ELSE original

targetOf_zero(o, beforeBytes) == IF o.target = -1 THEN 0 ELSE o.target

\* const targetBytes = TARGET ?? beforeBytes
targetOf(o, beforeBytes) == IF o.target = -1 THEN beforeBytes ELSE o.target

\* main up to the choice between extraction and the budget loop: stat,
\* readFile, the strip filters, the loop's variables
StartRun ==
  /\ pc = "start"
  /\ current' = stripped(disk, opts)
  /\ pass' = 0
  /\ q' = opts.quality
  /\ w' = opts.maxWidth
  /\ targetBytes' = targetOf(opts, Len(disk))
  /\ lastReplacements' = 0
  /\ pc' = IF opts.extract THEN "extract" ELSE "pass"
  /\ UNCHANGED <<disk, disk0, assets, opts, before, delta, loopState, scanVars,
                 matches, extracted, events, writes>>
  /\ UNCHANGED <<canonVars, nameVars, workers, strips, proc>>

\* the head of one turn of the budget loop and the entry of
\* compressInlineOnce, whose ensureSharp succeeds
BeginPass ==
  /\ pc = "pass"
  /\ pass' = pass + 1
  /\ before' = Len(current)
  /\ cache' = EmptyCache
  /\ out' = <<>>
  /\ i' = 0
  /\ replaced' = 0
  /\ events' = NoEvents
  /\ pc' = "scan"
  /\ UNCHANGED <<disk, disk0, assets, opts, current, q, w, targetBytes, delta,
                 lastReplacements, loopState, matches, extracted, writes>>
  /\ UNCHANGED <<canonVars, nameVars, workers, strips, proc>>

Event(sp, r) ==
  [start |-> sp.start, end |-> sp.end, how |-> r.how, sha |-> r.sha, text |-> r.text]

\* one turn of the scanner's loop
ScanStep ==
  /\ pc = "scan"
  /\ \E sp \in {Locate(current, i)} :
       IF sp.kind = "none"
       THEN /\ pc' = "join"
            /\ UNCHANGED <<i, out, replaced, cache, events>>
       ELSE IF sp.kind \in {"noSemi", "noComma"}
       THEN /\ out' = out \o slice(current, i, sp.start) \o sliceFrom(current, sp.start)
            /\ i' = Len(current)
            /\ pc' = "join"
            /\ UNCHANGED <<replaced, cache, events>>
       ELSE IF sp.kind = "noBase64"
       THEN /\ out' = out \o slice(current, i, sp.start) \o slice(current, sp.start, sp.end)
            /\ i' = sp.end
            /\ UNCHANGED <<pc, replaced, cache, events>>
       ELSE \E r \in Reencode(current, sp, opts.gifWebp, cache) :
              /\ out' = out \o slice(current, i, sp.start) \o r.text
              /\ i' = sp.end
              /\ replaced' = replaced + (IF r.how \in {"encoded", "cached"} THEN 1 ELSE 0)
              /\ cache' = r.cache
              /\ events' = Append(events, Event(sp, r))
              /\ UNCHANGED pc
  /\ UNCHANGED <<disk, disk0, assets, opts, current, pass, q, w, targetBytes,
                 before, delta, lastReplacements, loopState, matches, extracted,
                 writes>>
  /\ UNCHANGED <<canonVars, nameVars, workers, strips, proc>>

\* the loop of main has no writeFile: the file is what it was
fileAfterPass_written(file, next) == next

fileAfterPass(file, next) == file

\* q = Math.max(40, q - 10)
QualityFloor == 40

QualityStep == 10

\* w = Math.max(1000, w - 200)
WidthFloor == 1000

WidthStep == 200

tightenQuality_not(quality) == quality

tightenQuality(quality) == Max({QualityFloor, quality - QualityStep})

tightenWidth_free(width) == width - WidthStep

tightenWidth(width) == Max({WidthFloor, width - WidthStep})

stalled_never(d, replacements) == FALSE

\* if (delta <= 0 || replacements === 0) break
stalled(d, replacements) == d <= 0 \/ replacements = 0

\* compressInlineOnce returns and main finishes the turn of the loop with
\* next = out.join("") and after = its length
FinishPass(next, after) ==
  /\ current' = next
  /\ disk' = fileAfterPass(disk, next)
  /\ delta' = before - after
  /\ lastReplacements' = replaced
  /\ IF after <= targetBytes
     THEN loopState' = "Converged" /\ pc' = "write" /\ UNCHANGED <<q, w>>
     ELSE IF stalled(before - after, replaced)
     THEN loopState' = "Stalled" /\ pc' = "write" /\ UNCHANGED <<q, w>>
     ELSE IF q > QualityFloor
     THEN q' = tightenQuality(q) /\ pc' = "pass" /\ UNCHANGED <<w, loopState>>
     ELSE IF w > WidthFloor
     THEN w' = tightenWidth(w) /\ pc' = "pass" /\ UNCHANGED <<q, loopState>>
     ELSE loopState' = "ExhaustedParameters" /\ pc' = "write" /\ UNCHANGED <<q, w>>

EndPass ==
  /\ pc = "join"
  /\ \E next \in {out \o sliceFrom(current, i)} : FinishPass(next, Len(next))
  /\ UNCHANGED <<disk0, assets, opts, pass, targetBytes, before, scanVars,
                 matches, extracted, events, writes>>
  /\ UNCHANGED <<canonVars, nameVars, workers, strips, proc>>

\* await writeFile(fullPath, current, "utf8")
WriteDocument ==
  /\ pc = "write"
  /\ disk' = current
  /\ writes' = writes + 1
  /\ pc' = "done"
  /\ UNCHANGED <<disk0, assets, opts, current, pass, q, w, targetBytes, before,
                 delta, lastReplacements, loopState, scanVars, matches,
                 extracted, events>>
  /\ UNCHANGED <<canonVars, nameVars, workers, strips, proc>>

\* extractImagesToAssets up to the callbacks: ensureSharp and mkdir succeed,
\* replaceAsync collects the matches
BeginExtract ==
  /\ pc = "extract"
  /\ matches' = dataImageRe_matches(current)
  /\ cache' = EmptyCache
  /\ extracted' = 0
  /\ out' = <<>>
  /\ i' = 0
  /\ events' = NoEvents
  /\ pc' = "replace"
  /\ UNCHANGED <<disk, disk0, assets, opts, current, pass, q, w, targetBytes,
                 before, delta, lastReplacements, loopState, replaced, writes>>
  /\ UNCHANGED <<canonVars, nameVars, workers, strips, proc>>

\* replaceAsync handles the next match
ExtractStep ==
  /\ pc = "replace"
  /\ matches # <<>>
  /\ \E m \in {Head(matches)} :
       \E r \in ExtractOne(current, m, opts.gifWebp, extracted, cache) :
         /\ out' = out \o slice(current, i, m.start) \o r.text
         /\ i' = m.end
         /\ cache' = r.cache
         /\ assets' = IF r.path = <<>> THEN assets
                      ELSE assets \cup {[path |-> r.path, bytes |-> r.bytes]}
         /\ extracted' = extracted + (IF r.path = <<>> THEN 0 ELSE 1)
         /\ events' = Append(events, Event(m, r))
  /\ matches' = Tail(matches)
  /\ UNCHANGED <<disk, disk0, opts, pc, current, pass, q, w, targetBytes,
                 before, delta, lastReplacements, loopState, replaced, writes>>
  /\ UNCHANGED <<canonVars, nameVars, workers, strips, proc>>

\* replaceAsync joins the parts and main takes the result
EndExtract ==
  /\ pc = "replace"
  /\ matches = <<>>
  /\ current' = out \o sliceFrom(current, i)
  /\ pc' = "write"
  /\ UNCHANGED <<disk, disk0, assets, opts, pass, q, w, targetBytes, before,
                 delta, lastReplacements, loopState, scanVars, matches,
                 extracted, events, writes>>
  /\ UNCHANGED <<canonVars, nameVars, workers, strips, proc>>

\* main rejects: stat or readFile throws, or the first ensureSharp, or mkdir
RunFails ==
  /\ \/ pc = "start"
     \/ pc = "pass" /\ pass = 0
     \/ pc = "extract"
  /\ pc' = "failed"
  /\ UNCHANGED <<disk, disk0, assets, opts, current, pass, q, w, targetBytes,
                 before, delta, lastReplacements, loopState, scanVars, matches,
                 extracted, events, writes>>
  /\ UNCHANGED <<canonVars, nameVars, workers, strips, proc>>

CompactNext ==
  \/ StartRun
  \/ BeginPass
  \/ ScanStep
  \/ EndPass
  \/ WriteDocument
  \/ BeginExtract
  \/ ExtractStep
  \/ EndExtract
  \/ RunFails

SpecCompact == CompactInit /\ [][CompactNext]_vars


\* --------------------------------------- main of the Canonicalizer

\* the command lines tried; "d" is a directory argument
ArgLists ==
  { <<>>, <<"--apply">>, <<"d">>, <<"d", "--apply">>,
    <<"--quiet", "--apply", "d">>, <<"--no-canonical", "d", "e">> }

NoFlags == [apply |-> FALSE, quiet |-> FALSE, preferCanonical |-> TRUE]

\* parseArgs(args), from the state <<dir, flags>> of its loop
RECURSIVE parseArgsFrom(_, _, _)
parseArgsFrom(args, dir, fl) ==
  IF args = <<>> THEN [dir |-> dir, flags |-> fl]
  ELSE IF Head(args) = "--apply"
  THEN parseArgsFrom(Tail(args), dir, [fl EXCEPT !.apply = TRUE])
  ELSE IF Head(args) = "--quiet"
  THEN parseArgsFrom(Tail(args), dir, [fl EXCEPT !.quiet = TRUE])
  ELSE IF Head(args) = "--no-canonical"
  THEN parseArgsFrom(Tail(args), dir, [fl EXCEPT !.preferCanonical = FALSE])
  ELSE parseArgsFrom(Tail(args), IF dir = "" THEN Head(args) ELSE dir, fl)

parseArgs(args) == parseArgsFrom(args, "", NoFlags)

\* a process is started on a command line; the directory it names exists or
\* does not
MainInit ==
  /\ \E K \in SUBSET (1..Len(InitNames)) :
       /\ K # {} /\ Cardinality(K) <= MaxFiles
       /\ fs = [n \in {InitNames[k] : k \in K} |->
                  CHOOSE k \in K : InitNames[k] = n]
       /\ docOf \in [K -> Docs]
  /\ fs0 = fs
  /\ flags = NoFlags
  /\ now = 0
  /\ run = 0
  /\ pending = {}
  /\ cpc = "idle"
  /\ cur = NoCur
  /\ fsAtCall = fs
  /\ renames = 0
  /\ overwrote = FALSE
  /\ log = {}
  /\ \E argv \in ArgLists, dirExists \in BOOLEAN :
       proc = [argv |-> argv, dirExists |-> dirExists, pc |-> "main", exitCode |-> -1]
  /\ CompactIdle
  /\ NameIdle
  /\ workers = <<>>
  /\ strips = <<>>

\* main: parseArgs; process.exit(1) without a directory; else processDir,
\* whose walk begins with fs.readdir(dir): when that throws, processDir and
\* main reject and main().catch calls process.exit(1)
MainStart ==
  /\ proc.pc = "main"
  /\ LET a == parseArgs(proc.argv)
     IN IF a.dir = "" \/ ~proc.dirExists
        THEN /\ proc' = [proc EXCEPT !.pc = "exited", !.exitCode = 1]
             /\ UNCHANGED <<flags, run, pending, cpc>>
        ELSE /\ proc' = [proc EXCEPT !.pc = "run"]
             /\ flags' = a.flags
             /\ run' = 1
             /\ pending' = DOMAIN fs
             /\ cpc' = "walk"
  /\ UNCHANGED <<fs, fs0, docOf, now, cur, fsAtCall, renames, overwrote, log>>
  /\ UNCHANGED <<compactVars, nameVars, workers, strips>>

\* processDir has returned and main resolves: the process ends with code 0
MainReturn ==
  /\ proc.pc = "run"
  /\ cpc = "idle"
  /\ proc' = [proc EXCEPT !.pc = "exited", !.exitCode = 0]
  /\ UNCHANGED <<canonVars, compactVars, nameVars, workers, strips>>

MainNext ==
  \/ MainStart
  \/ Tick
  \/ NextFile
  \/ DedupeProbe
  \/ DedupeRename
  \/ LogChange
  \/ EndRun
  \/ MainReturn

SpecMain == MainInit /\ [][MainNext]_vars

\* -------------------------------------------------- maybeFixFile, in steps

\* maybeFixFile is called on a file whose text readFile returns
NameInit ==
  /\ nHtml \in Pages
  /\ nBase \in BaseNames
  /\ nPrefer \in BOOLEAN
  /\ nClock \in 0..MaxClock
  /\ npc = "read"
  /\ nLeft = <<>> /\ nUrl = NoUrl /\ flatUrlBase = <<>> /\ dtSuffix = <<>>
  /\ newBase = <<>>
  /\ CanonIdle
  /\ CompactIdle
  /\ workers = <<>>
  /\ strips = <<>>
  /\ proc = <<>>

\* extractBestUrl: the four signals are looked up and put in order
FindSignals ==
  /\ npc = "read"
  /\ nLeft' = candidates(nHtml, nPrefer)
  /\ npc' = "try"
  /\ UNCHANGED <<nHtml, nBase, nPrefer, nClock, nUrl, flatUrlBase, dtSuffix, newBase>>
  /\ UNCHANGED <<canonVars, compactVars, workers, strips, proc>>

\* one turn of the loop over the candidates
TryCandidate ==
  /\ npc = "try"
  /\ nLeft # <<>>
  /\ \E cleaned \in {IF Head(nLeft) = NoUrl THEN NoUrl
                       ELSE absolutizeAndValidateUrl(Head(nLeft))} :
       IF cleaned # NoUrl
       THEN nUrl' = cleaned /\ npc' = "found" /\ UNCHANGED nLeft
       ELSE nLeft' = Tail(nLeft) /\ UNCHANGED <<nUrl, npc>>
  /\ UNCHANGED <<nHtml, nBase, nPrefer, nClock, flatUrlBase, dtSuffix, newBase>>
  /\ UNCHANGED <<canonVars, compactVars, workers, strips, proc>>

\* extractBestUrl returns null: the name is only normalised
Fallback ==
  /\ npc = "try"
  /\ nLeft = <<>>
  /\ newBase' = normalizeWeirdPunctToAscii(nBase)
  /\ npc' = "fallback"
  /\ UNCHANGED <<nHtml, nBase, nPrefer, nClock, nLeft, nUrl, flatUrlBase, dtSuffix>>
  /\ UNCHANGED <<canonVars, compactVars, workers, strips, proc>>

\* const flatUrlBase = flattenUrl(urlStr)
Flatten ==
  /\ npc = "found"
  /\ flatUrlBase' = flattenUrl(nUrl)
  /\ npc' = "flat"
  /\ UNCHANGED <<nHtml, nBase, nPrefer, nClock, nLeft, nUrl, dtSuffix, newBase>>
  /\ UNCHANGED <<canonVars, compactVars, workers, strips, proc>>

\* the datetime suffix, the extension and the sanitised new name
Compose ==
  /\ npc = "flat"
  /\ \E dt \in {extractOrMakeDatetimeSuffix(nBase, nClock)} :
       /\ dtSuffix' = dt
       /\ newBase' = sanitizeFilename(flatUrlBase \o <<"-">> \o dt \o extOrHtml(HtmlExtMatch(nBase)))
  /\ npc' = "named"
  /\ UNCHANGED <<nHtml, nBase, nPrefer, nClock, nLeft, nUrl, flatUrlBase>>
  /\ UNCHANGED <<canonVars, compactVars, workers, strips, proc>>

NameNext ==
  \/ FindSignals
  \/ TryCandidate
  \/ Fallback
  \/ Flatten
  \/ Compose

SpecName == NameInit /\ [][NameNext]_vars

\* ----------------------------------- maybeFixFile, one call per file

\* a directory of two or more files, --apply, and for each file a call of
\* maybeFixFile that has not yet read it
WorkersInit ==
  /\ \E K \in SUBSET (1..Len(InitNames)) :
       /\ Cardinality(K) >= 2 /\ Cardinality(K) <= MaxFiles
       /\ fs = [n \in {InitNames[k] : k \in K} |->
                  CHOOSE k \in K : InitNames[k] = n]
       /\ docOf \in [K -> Docs]
       /\ workers = [k \in K |-> [file |-> InitNames[k], pc |-> "read",
                                   desired |-> <<>>, candidate |-> <<>>, n |-> 0]]
  /\ fs0 = fs
  /\ flags \in {fl \in FlagChoices : fl.apply}
  /\ now = 0
  /\ run = 1
  /\ pending = {}
  /\ cpc = "workers"
  /\ cur = NoCur
  /\ fsAtCall = fs
  /\ renames = 0
  /\ overwrote = FALSE
  /\ log = {}
  /\ CompactIdle
  /\ NameIdle
  /\ strips = <<>>
  /\ proc = <<>>

\* await fs.readFile, then the name wanted; the catch of processDir when
\* readFile throws
WorkerRead(k) ==
  /\ workers[k].pc = "read"
  /\ LET file == workers[k].file
     IN IF file \notin DOMAIN fs \/ ~docOf[fs[file]].readable
        THEN /\ workers' = [workers EXCEPT ![k].pc = "failed"]
             /\ log' = logLine("ERR", file, <<>>)
        ELSE \E d \in {desiredName(file, docOf[fs[file]].html,
                                    flags.preferCanonical, now)} :
               /\ workers' = [workers EXCEPT
                                ![k].pc = IF d = file THEN "done" ELSE "dedupe",
                                ![k].desired = d, ![k].candidate = d, ![k].n = 2]
               /\ UNCHANGED log
  /\ UNCHANGED <<fs, fs0, docOf, flags, now, run, pending, cpc, cur, fsAtCall,
                 renames, overwrote>>
  /\ UNCHANGED <<compactVars, nameVars, strips, proc>>

\* one turn of the loop of dedupeAndMaybeRename: await existsFile(destPath)
WorkerProbe(k) ==
  /\ workers[k].pc = "dedupe"
  /\ LET me == workers[k]
     IN IF me.candidate = me.file
        THEN workers' = [workers EXCEPT ![k].pc = "report"]
        ELSE IF ~existsFile(fs, me.candidate)
        THEN workers' = [workers EXCEPT
                           ![k].pc = IF shouldRename(flags) THEN "rename" ELSE "report"]
        ELSE workers' = [workers EXCEPT
                           ![k].candidate = suffixed(me.desired, me.n),
                           ![k].n = me.n + 1]
  /\ UNCHANGED canonVars
  /\ UNCHANGED <<compactVars, nameVars, strips, proc>>

\* await fs.rename(path.join(dir, oldBase), destPath)
WorkerRename(k) ==
  /\ workers[k].pc = "rename"
  /\ LET me == workers[k]
     IN IF renameThrows(fs, me.file, me.candidate)
        THEN /\ workers' = [workers EXCEPT ![k].pc = "failed"]
             /\ log' = logLine("ERR", me.file, <<>>)
             /\ UNCHANGED <<fs, renames, overwrote>>
        ELSE /\ fs' = renameIn(fs, me.file, me.candidate)
             /\ overwrote' = (overwrote \/ me.candidate \in DOMAIN fs)
             /\ renames' = renames + 1
             /\ workers' = [workers EXCEPT ![k].pc = "report"]
             /\ UNCHANGED log
  /\ UNCHANGED <<fs0, docOf, flags, now, run, pending, cpc, cur, fsAtCall>>
  /\ UNCHANGED <<compactVars, nameVars, strips, proc>>

\* logChange after dedupeAndMaybeRename returned
WorkerLogChange(k) ==
  /\ workers[k].pc = "report"
  /\ log' = logLine("RENAME", workers[k].file, workers[k].candidate)
  /\ workers' = [workers EXCEPT ![k].pc = "done"]
  /\ UNCHANGED <<fs, fs0, docOf, flags, now, run, pending, cpc, cur, fsAtCall,
                 renames, overwrote>>
  /\ UNCHANGED <<compactVars, nameVars, strips, proc>>

WorkersNext ==
  \/ \E k \in DOMAIN workers : WorkerRead(k)
  \/ \E k \in DOMAIN workers : WorkerProbe(k)
  \/ \E k \in DOMAIN workers : WorkerRename(k)
  \/ \E k \in DOMAIN workers : WorkerLogChange(k)

SpecWorkers == WorkersInit /\ [][WorkersNext]_vars

\* ------------------------------------- the strip filters, in main's order

STYLE_THRESHOLD == 200000

SmallThreshold == 20

\* documents with a style block inside a script block that ends inside it, an
\* embedded font, the two kinds of tracking iframe, a font data URL, an
\* image data URL, and nothing to strip
StripDocuments ==
  { <<"<","s","c","r","i","p","t",">","<","s","t","y","l","e",">","x","<","/","s","c","r","i","p","t",">","y","<","/","s","t","y","l","e",">">>,
    <<"<","s","t","y","l","e",">","@","f","o","n","t","-","f","a","c","e"," ","{","s","r","c",":","u","r","l","(","d","a","t","a",":","f","o","n","t","/","w","o","f","f","2",";","b","a","s","e","6","4",",","A","A",")","}","<","/","s","t","y","l","e",">">>,
    <<"<","i","f","r","a","m","e"," ","n","a","m","e","=","\"","_","_","p","r","i","v","a","t","e","S","t","r","i","p","e","M","e","t","r","i","c","s","C","o","n","t","r","o","l","l","e","r","1","\"",">","<","/","i","f","r","a","m","e",">","<","p",">","x","<","/","p",">">>,
    <<"<","i","f","r","a","m","e"," ","s","r","c","=","\"","h","t","t","p","s",":","/","/","j","s",".","s","t","r","i","p","e",".","c","o","m","/","v","3","\"",">","<","/","i","f","r","a","m","e",">","<","s","c","r","i","p","t",">","x","<","/","s","c","r","i","p","t",">">>,
    <<"<","p"," ","s","t","y","l","e","=","\"","b","a","c","k","g","r","o","u","n","d",":","u","r","l","("," ","d","a","t","a",":","a","p","p","l","i","c","a","t","i","o","n","/","x","-","f","o","n","t","-","t","t","f",";","b","a","s","e","6","4",",","A","A",")","\"",">","x","<","/","p",">">>,
    <<"<","i"," ","s","t","y","l","e","=","\"","b","a","c","k","g","r","o","u","n","d",":","u","r","l","(","d","a","t","a",":","i","m","a","g","e","/","p","n","g",";","b","a","s","e","6","4",",","i","V","B","O","T","T","F","A",")","\"",">","x","<","/","i",">">>,
    NoSignals }

StripInit ==
  /\ \E doc \in StripDocuments, sel \in SUBSET {"fonts", "stripe", "scripts", "styles"},
        th \in {SmallThreshold, STYLE_THRESHOLD} :
       strips = [original |-> doc, text |-> doc, selected |-> sel,
                 threshold |-> th, pc |-> "fonts", removed |-> <<>>]
  /\ CanonIdle
  /\ CompactIdle
  /\ NameIdle
  /\ workers = <<>>
  /\ proc = <<>>

\* if (FLAG) { original = filter(original); console.log(before - after) }
stripStep(flag, filtered, next) ==
  /\ strips' = IF flag \in strips.selected
               THEN [strips EXCEPT !.text = filtered, !.pc = next,
                                   !.removed = Append(@, Len(strips.text) - Len(filtered))]
               ELSE [strips EXCEPT !.pc = next]
  /\ UNCHANGED <<canonVars, compactVars, nameVars, workers, proc>>

StripFonts ==
  /\ strips.pc = "fonts"
  /\ stripStep("fonts", stripEmbeddedFonts(strips.text), "stripe")

StripStripe ==
  /\ strips.pc = "stripe"
  /\ stripStep("stripe", stripStripeIframes(strips.text), "scripts")

StripScripts ==
  /\ strips.pc = "scripts"
  /\ stripStep("scripts", stripScripts(strips.text), "styles")

StripLargeStyles ==
  /\ strips.pc = "styles"
  /\ stripStep("styles", stripLargeStyleBlocks(strips.text, strips.threshold), "done")

StripNext ==
  \/ StripFonts
  \/ StripStripe
  \/ StripScripts
  \/ StripLargeStyles

SpecStrip == StripInit /\ [][StripNext]_vars





\* ------------------------------------------------ claims: Canonicalizer

\* C1: in an apply-mode run no rename has a destination that exists at the
\* moment of the rename; every file that existed before the run still exists
\* under exactly one name and the number of files is unchanged.
C1_NoFileLost ==
  flags.apply =>
    /\ ~overwrote
    /\ Cardinality(DOMAIN fs) = Cardinality(DOMAIN fs0)
    /\ {fs[n] : n \in DOMAIN fs} = {fs0[n] : n \in DOMAIN fs0}
    /\ \A n, m \in DOMAIN fs : fs[n] = fs[m] => n = m

\* a rename that had to take a collision suffix has been performed
C1_Witness ==
  /\ flags.apply
  /\ cpc = "report"
  /\ cur.candidate # cur.desired
  /\ cur.candidate \in DOMAIN fs
  /\ cur.oldBase \notin DOMAIN fs

\* C2 (as claimed): the second apply-mode run over the same documents
\* performs zero renames.
C2_SecondRunRenamesNothing ==
  (flags.apply /\ run = 2) => renames = 0

\* C3: without --apply no run changes the directory: the set of paths and
\* their contents stay what they were, whatever errors occur.
C3_DryRunTouchesNothing ==
  ~flags.apply => fs = fs0

\* a dry run has planned a rename and has met an unreadable file
C3_Witness ==
  /\ ~flags.apply
  /\ \E l \in log : l.tag = "DRYRUN" /\ l.to # l.from
  /\ \E l \in log : l.tag = "ERR"

\* the claim's <stem>-<n><ext>: n in decimal, put before the recognised
\* (possibly compound) extension
C4_SuffixedExt(desired, n, ext) ==
  slice(desired, 0, Len(desired) - Len(ext)) \o <<"-">> \o ToDecimal(n) \o ext

C4_Suffixed(desired, n) == C4_SuffixedExt(desired, n, HtmlExtMatch(desired))

RECURSIVE C5_StepsDown(_, _, _)
C5_StepsDown(v, floor, step) ==
  IF v <= floor THEN 0 ELSE 1 + C5_StepsDown(v - step, floor, step)

C5_LoopStates ==
  /\ pass <= 1 + C5_StepsDown(opts.quality, QualityFloor, QualityStep)
                 + C5_StepsDown(opts.maxWidth, WidthFloor, WidthStep)
  /\ (opts.quality = 70 /\ opts.maxWidth = 1600) => pass <= 7
  /\ (pc \in {"pass", "scan", "join"}) => loopState = "Running"
  /\ (pc \in {"write", "done"} /\ ~opts.extract) =>
       loopState \in {"Converged", "Stalled", "ExhaustedParameters"}
  /\ loopState = "Converged" => Len(current) <= targetBytes
  /\ loopState = "Stalled" =>
       /\ Len(current) > targetBytes
       /\ lastReplacements = 0 \/ delta <= 0
  /\ loopState = "ExhaustedParameters" =>
       /\ Len(current) > targetBytes
       /\ lastReplacements > 0 /\ delta > 0
       /\ q <= QualityFloor /\ w <= WidthFloor

\* a step of a pass moves the scanner forward, and passes are only counted up
C5_ScanAdvances ==
  /\ pass' >= pass
  /\ (pc = "scan" /\ pc' = "scan") => i' > i
  /\ (pc = "scan" /\ pc' = "join") => i' >= i
  /\ pc = "join" => pc' \in {"pass", "write"}

C6_SizeNeverGrows ==
  (pass >= 1 /\ pc \in {"pass", "write", "done"}) =>
    /\ Len(current) <= before
    /\ pc = "done" => Len(disk) <= before

\* C7: the document file is written at most once, and only when the whole
\* replacement text is built (the budget loop has stopped, or every match has
\* been externalised); until then, also when the run has failed, the file
\* holds what it held before the run.
C7_WrittenOnceWhenComplete ==
  /\ writes <= 1
  /\ writes = 0 => disk = disk0
  /\ writes = 1 =>
       /\ pc = "done"
       /\ disk = current
       /\ IF opts.extract THEN matches = <<>> ELSE loopState # "Running"

\* a run of several passes has written a changed document
C7_Witness ==
  /\ writes = 1
  /\ pass >= 2
  /\ disk # disk0

\* the base64 payload of a data URL
C10_Payload(text) == sliceFrom(text, indexOf(text, <<",">>, 0) + 1)

C8_WellFormed == dataImageRe_matches(current)

\* C8 (as claimed): when a pass has scanned the document, every well-formed
\* data:image/...;base64,<payload> occurrence has been located as its own
\* span, and no span begins at a marker that is not well-formed.
C8_MalformedPassedThrough ==
  pc = "join" =>
    /\ \A k \in 1..Len(C8_WellFormed) :
         \E e \in 1..Len(events) :
           /\ events[e].start = C8_WellFormed[k].start
           /\ events[e].end = C8_WellFormed[k].end
    /\ \A e \in 1..Len(events) :
         \E k \in 1..Len(C8_WellFormed) : C8_WellFormed[k].start = events[e].start

C9_DecodedSpan(e) ==
  fromBase64(stripWhitespace(C10_Payload(slice(current, events[e].start, events[e].end))))

C11_IsSvg(m) == StartsAt(toLowerCase(m.mime), <<"i","m","a","g","e","/","s","v","g">>, 0)

\* the events of the scan whose span shares text with the match m
C11_Covering(m) ==
  {e \in 1..Len(events) : events[e].start < m.end /\ m.start < events[e].end}

\* C11 (as claimed): when a pass, or the externalisation, has gone through the
\* document, every SVG data URL of its input was emitted unchanged: no span
\* that holds it was re-encoded or rewritten.
C11_SvgPassedThrough ==
  (pc = "join" \/ (pc = "replace" /\ matches = <<>>)) =>
    LET unchanged(wf) ==
          \A k \in 1..Len(wf) :
            C11_IsSvg(wf[k]) =>
              \A e \in C11_Covering(wf[k]) :
                events[e].text = slice(current, events[e].start, events[e].end)
    IN unchanged(dataImageRe_matches(current))

\* a match of dataImageRe whose mime type is image/gif
C12_IsGif(m) == toLowerCase(m.mime) = <<"i","m","a","g","e","/","g","i","f">>

\* the text emitted for the event e is still a GIF: the span as it was, a
\* data URL of type image/gif, or the path of a .gif asset
C12_StillGif(e) ==
  \/ events[e].text = slice(current, events[e].start, events[e].end)
  \/ StartsAt(toLowerCase(events[e].text), <<"d","a","t","a",":","i","m","a","g","e","/","g","i","f",";">>, 0)
  \/ endsWith(events[e].text, <<".","g","i","f">>)

\* C12 (as claimed): without --gif-webp, when a pass, or the externalisation,
\* has gone through the document, every data URL of type image/gif of its
\* input is still of type image/gif, whether its re-optimisation succeeded
\* or failed.
C12_GifStaysGif ==
  (~opts.gifWebp /\ (pc = "join" \/ (pc = "replace" /\ matches = <<>>))) =>
    LET stays(wf) ==
          \A k \in 1..Len(wf) :
            C12_IsGif(wf[k]) => \A e \in C11_Covering(wf[k]) : C12_StillGif(e)
    IN stays(dataImageRe_matches(current))

\* ------------------------------------------------ claims: maybeFixFile

\* the link and meta candidates that were tried before the one that won
C13_TriedBefore ==
  LET tried(cs) == {cs[k] : k \in 1..(Len(cs) - Len(nLeft))}
  IN tried(candidates(nHtml, nPrefer))

\* C13 (as claimed): for a document with a canonical link to https://ex.com/a
\* and an Open Graph URL https://ex.com/b the extracted URL is the canonical
\* link's by default and the Open Graph URL with --no-canonical; and the URL
\* of the saved-from comment is taken only when no link or meta signal
\* yields a valid URL.
C13_CanonicalThenOpenGraph ==
  (npc \in {"found", "flat", "named", "fallback"}) =>
    /\ nHtml \in {CanonicalAndOpenGraph, HrefBeforeRel} =>
         nUrl = IF nPrefer THEN <<"h","t","t","p","s",":","/","/","e","x",".","c","o","m","/","a">> ELSE <<"h","t","t","p","s",":","/","/","e","x",".","c","o","m","/","b">>
    /\ (nUrl # NoUrl /\ Len(nLeft) = 1) =>
         \A c \in C13_TriedBefore : c = NoUrl \/ absolutizeAndValidateUrl(c) = NoUrl

\* the k-th candidate is present and normalises
C14_Valid(cs, k) == cs[k] # NoUrl /\ absolutizeAndValidateUrl(cs[k]) # NoUrl

\* C14: the extracted URL is the normalisation of the first candidate, in
\* priority order, that is present and normalises; it is none only when no
\* candidate does; it begins with http:// or https:// and has neither a query
\* nor a fragment.
C14_FirstValidCandidate ==
  LET first(cs) ==
        \E k \in 1..Len(cs) :
          /\ C14_Valid(cs, k)
          /\ \A j \in 1..(k - 1) : ~C14_Valid(cs, j)
          /\ nUrl = absolutizeAndValidateUrl(cs[k])
      none(cs) == nUrl = NoUrl /\ \A k \in 1..Len(cs) : ~C14_Valid(cs, k)
  IN /\ (npc \in {"found", "flat", "named"}) =>
          /\ first(candidates(nHtml, nPrefer))
          /\ StartsAt(nUrl, <<"h","t","t","p",":","/","/">>, 0) \/ StartsAt(nUrl, <<"h","t","t","p","s",":","/","/">>, 0)
          /\ \A x \in 1..Len(nUrl) : nUrl[x] \notin {"?", "#"}
     /\ npc = "fallback" => none(candidates(nHtml, nPrefer))

\* a candidate that is present but no http(s) URL was passed over, and the
\* candidate that won carried a query and a fragment
C14_Witness ==
  /\ npc = "found"
  /\ Len(nLeft) = 2
  /\ findCanonical(nHtml) = <<"/","a">>
  /\ \E x \in 1..Len(Head(nLeft)) : Head(nLeft)[x] = "?"
  /\ nUrl = <<"h","t","t","p","s",":","/","/","e","x",".","c","o","m",":","8","0","8","0","/","b","/">>

\* ------------------------------------------- claims: Canonicalizer (2)

\* the document with file id d was read and none of its four candidates is
\* present and normalises
C15_NoSignalFound(d) ==
  /\ docOf[d].readable
  /\ LET none(cs) == \A k \in 1..Len(cs) : ~C14_Valid(cs, k)
     IN none(candidates(docOf[d].html, flags.preferCanonical))

\* C15 (as claimed): the new name of a file in which no valid URL signal is
\* found is its name with the full-width punctuation replaced by ASCII, and
\* nothing else.
C15_OnlyPunctuation ==
  (cpc = "report" /\ C15_NoSignalFound(fsAtCall[cur.oldBase])) =>
    cur.candidate = normalizeWeirdPunctToAscii(cur.oldBase)

C15_FallbackName ==
  (cpc \in {"dedupe", "rename", "report"} /\ C15_NoSignalFound(fsAtCall[cur.oldBase])) =>
    /\ cur.desired = normalizeWeirdPunctToAscii(cur.oldBase)
    /\ cur.desired # cur.oldBase
    /\ \/ cur.candidate = cur.desired
       \/ /\ cur.desired \in DOMAIN fsAtCall
          /\ \E n \in 2..(Cardinality(DOMAIN fsAtCall) + 2) :
               cur.candidate = C4_Suffixed(cur.desired, n)

\* a file that does not reach the resolver is neither renamed nor reported;
\* the only line written for it is the error of a file that cannot be read
C15_OnlyInResolver ==
  /\ fs' # fs => cpc = "rename"
  /\ (cpc = "walk" /\ cpc' = "walk") =>
       \A l \in log' \ log :
         /\ l.tag = "ERR"
         /\ l.from \notin DOMAIN fs \/ ~docOf[fs[l.from]].readable

\* C15 (amended): a file in which no valid URL signal is found is never given
\* a URL-derived name: it reaches the resolver only when replacing its
\* full-width punctuation by ASCII changes its name, the name asked for is
\* that replacement, and the name it gets is that replacement or, when it is
\* taken, that replacement with -<n> before the extension; a file whose name
\* the replacement does not change is not renamed, not reported, and no
\* error is raised for it.
C15_NoUrlNoGuess ==
  /\ []C15_FallbackName
  /\ [][C15_OnlyInResolver]_vars

\* a file without URL signal was renamed to its ASCII name with suffix -2,
\* the ASCII name being taken
C15_Witness ==
  /\ cpc = "report"
  /\ flags.apply
  /\ C15_NoSignalFound(fsAtCall[cur.oldBase])
  /\ cur.candidate = C4_Suffixed(normalizeWeirdPunctToAscii(cur.oldBase), 2)
  /\ cur.candidate \in DOMAIN fs
  /\ cur.oldBase \notin DOMAIN fs

\* processing the file f fails: readFile throws
C16_Unreadable(f) ==
  f \in DOMAIN fs /\ HTML_EXT_RE_test(f) /\ ~docOf[fs[f]].readable

C16_ErrLine(f) == [tag |-> "ERR", from |-> f, to |-> <<>>]

\* the step that takes a file whose processing fails changes nothing but the
\* console, and the walk goes on with the entries that are left
C16_FailureIsLocal ==
  \A f \in pending \ pending' :
    C16_Unreadable(f) =>
      /\ fs' = fs
      /\ cpc' = "walk"
      /\ pending' = pending \ {f}
      /\ log' = IF flags.quiet THEN log ELSE log \cup {C16_ErrLine(f)}

\* a run ends only when walk has yielded every entry, and then every failure
\* is on the console unless --quiet
C16_RunCoversAll ==
  (cpc = "idle" /\ run >= 1) =>
    /\ pending = {}
    /\ ~flags.quiet =>
         \A f \in DOMAIN fs : C16_Unreadable(f) => C16_ErrLine(f) \in log

\* C16: a failure in reading or processing one file is caught (and logged
\* unless --quiet): the step changes no file and no other file's entry, the
\* walk goes on, and the run ends only when every entry has been taken.
C16_FailureCaught ==
  /\ []C16_RunCoversAll
  /\ [][C16_FailureIsLocal]_vars

\* in the first run one file failed and another was renamed
C16_Witness ==
  /\ run = 1
  /\ flags.apply
  /\ cpc = "report"
  /\ \E l \in log : l.tag = "ERR"
  /\ cur.oldBase \notin DOMAIN fs
  /\ cur.candidate \in DOMAIN fs

C17_Safe(name) ==
  \A x \in 1..Len(name) : name[x] \notin INVALID_FILENAME_CHARS

\* C17: every new name the Canonicalizer reports (dry run) or renames a file
\* to (--apply) has no path separator, no control character and none of the
\* reserved characters.
C17_NewNamesAreSafe ==
  \A l \in log :
    (l.tag \in {"RENAME", "DRYRUN"} /\ l.to # l.from) => C17_Safe(l.to)

\* ---------------------------------------------- claims: maybeFixFile (2)

\* <scheme>__<host> of the URL that was found
C18_SchemeAndHost(u) ==
  replaceChar(u.protocol, ":", <<>>) \o <<"_", "_">> \o u.hostname

\* the name is <scheme>__<host>, then _<path> when the path is not the
\* root, then -<datetime> and the extension
C18_Grammar(name, u, dt, ext) ==
  LET head(sh) ==
        /\ StartsAt(name, sh, 0)
        /\ Len(name) > Len(sh)
        /\ name[Len(sh) + 1] = (IF u.pathname = <<"/">> THEN "-" ELSE "_")
  IN /\ head(C18_SchemeAndHost(u))
     /\ endsWith(name, <<"-">> \o dt \o ext)

\* C18: every name composed from a found URL begins with the lower-case
\* scheme, two underscores and the lower-case host without port, followed by
\* _<flattened-path> when the path is non-root, then -<datetime>Z and the
\* extension.
C18_FilenameGrammar ==
  npc = "named" =>
    C18_Grammar(newBase, ParseUrl(nUrl), dtSuffix, extOrHtml(HtmlExtMatch(nBase)))

\* the timestamp a name ends with before its recognised extension, or <<>>
C19_TimestampBefore(name, ext) ==
  IF ext = <<>> THEN <<>>
  ELSE DatetimeInName(slice(name, 0, Len(name) - Len(ext)))

C19_Carries(name, dt, stamp, ext) ==
  stamp # <<>> =>
    /\ dt = normalizeDatetimeForName(stamp)
    /\ endsWith(name, <<"-">> \o normalizeDatetimeForName(stamp) \o ext)

\* C19: when the current name ends with -<timestamp>Z followed by one of
\* .html, .zip, .zip.html, .u.zip.html, the canonical name carries that
\* timestamp with its punctuation normalised to '_', and no timestamp is
\* synthesised from the clock.
C19_TimestampReused ==
  npc = "named" =>
    C19_Carries(newBase, dtSuffix,
                C19_TimestampBefore(nBase, HtmlExtMatch(nBase)), HtmlExtMatch(nBase))

\* the name composed for the URL urlStr
C20_Name(urlStr, dt, ext) ==
  sanitizeFilename(flattenUrl(urlStr) \o <<"-">> \o dt \o ext)

C20_Distinct(u, withSlash, dt, ext) ==
  /\ flattenUrl(u) # flattenUrl(withSlash)
  /\ C20_Name(u, dt, ext) # C20_Name(withSlash, dt, ext)

\* C20: for a URL U whose path is not the root and does not end in '/',
\* flattening U and U + '/' gives different strings, and the names composed
\* from them with the same timestamp and extension differ after
\* sanitisation.
C20_TrailingSlashKept ==
  (npc = "named" /\ ~endsWith(nUrl, <<"/">>)) =>
    C20_Distinct(nUrl, nUrl \o <<"/">>, dtSuffix, extOrHtml(HtmlExtMatch(nBase)))

\* the two URLs differ in scheme, host or path
C21_Differ(a, b) ==
  \/ a.protocol # b.protocol
  \/ a.hostname # b.hostname
  \/ a.pathname # b.pathname

\* the URLs found in the pages
C21_Urls ==
  {extractBestUrl(p, b) : p \in Pages, b \in BOOLEAN} \ {NoUrl}

\* C21: flattening is a function of the URL, and two URLs that differ in
\* scheme, host or path flatten to different strings.
C21_CollisionFree ==
  npc = "flat" =>
    /\ flatUrlBase = flattenUrl(nUrl)
    /\ LET free(urls, u) ==
             \A v \in urls :
               C21_Differ(u, ParseUrl(v)) => flattenUrl(v) # flatUrlBase
       IN free(C21_Urls, ParseUrl(nUrl))

\* ------------------------------------------- claims: parallel workers

\* every file of the directory is still there, under a name of its own
C22_NoneLost ==
  \A k \in DOMAIN docOf : \E name \in DOMAIN fs : fs[name] = k

\* C22: with one maybeFixFile call per file of a directory running side by
\* side in apply mode, under every interleaving of the existence checks and
\* the renames no rename overwrites a file: all files end up under different
\* names.
C22_ParallelWorkersSafe ==
  cpc = "workers" => (~overwrote /\ C22_NoneLost)

\* --------------------------------------------- claims: strip filters

\* the filter named flag, applied to s with the threshold th
C23_Filter(flag, s, th) ==
  IF flag = "fonts" THEN stripEmbeddedFonts(s)
  ELSE IF flag = "stripe" THEN stripStripeIframes(s)
  ELSE IF flag = "scripts" THEN stripScripts(s)
  ELSE stripLargeStyleBlocks(s, th)

C23_Commute(f, g, s, th) ==
  C23_Filter(f, C23_Filter(g, s, th), th) = C23_Filter(g, C23_Filter(f, s, th), th)

\* C23: any two of the strip filters commute on any document and any
\* threshold, so the text handed to compaction does not depend on the order in
\* which the selected filters ran.
C23_OrderInsensitive ==
  strips # <<>> =>
    \A f \in strips.selected, g \in strips.selected :
      C23_Commute(f, g, strips.original, strips.threshold)

\* ------------------------------------------------ claims: Compactor (2)

\* the match m is a WebP data URL as the encoder writes it
C24_FromEarlierRun(doc, m) ==
  LET written(bytes) ==
        /\ bytes # <<>>
        /\ slice(doc, m.start, m.end)
             = dataUrl(<<"w","e","b","p">>, toBase64(encodedImage(<<"w","e","b","p">>, Len(bytes))))
  IN written(fromBase64(stripWhitespace(m.b64)))

\* the document is not over the target and all its images are of an earlier run
C24_InTargetForm(doc, target) ==
  /\ Len(doc) <= target
  /\ LET all(ms) == ms # <<>> /\ \A k \in 1..Len(ms) : C24_FromEarlierRun(doc, ms[k])
     IN all(dataImageRe_matches(doc))

\* C24: a run of the budget loop on a document that is already at or below
\* the target and whose images were all written by an earlier run invokes the
\* encoder for no image and leaves the document byte for byte as it was.
C24_IdempotentInTargetForm ==
  (pc \in {"join", "done"} /\ ~opts.extract /\ ~opts.stripScripts
     /\ C24_InTargetForm(disk0, targetOf(opts, Len(disk0)))) =>
    /\ \A e \in 1..Len(events) : events[e].how # "encoded"
    /\ pc = "done" => disk = disk0

\* String(n).padStart(4, "0") for n < 10000
C25_FourDigits(n) ==
  <<DigitChars[((n \div 1000) % 10) + 1], DigitChars[((n \div 100) % 10) + 1],
    DigitChars[((n \div 10) % 10) + 1], DigitChars[(n % 10) + 1]>>

C25_Exts == {<<>>, <<".","s","v","g">>, <<".","g","i","f">>, <<".","p","n","g">>, <<".","j","p","g">>, <<".","w","e","b","p">>}

\* the matches the callback has returned a file path for, and those of them
\* for which it wrote the file
C25_Handled == {e \in 1..Len(events) : events[e].how # "unwritten"}

C25_Written == {e \in C25_Handled : events[e].how # "cached"}

\* the file of the match e is img-<index>-<hash><ext> under the asset
\* directory, its index the number of files written before it
C25_Named(e, index) ==
  \E ext \in C25_Exts :
    /\ events[e].text = <<"/","a","s","s","e","t","s","/","s","n","a","p","s","h","o","t","s","/">> \o Slug \o <<"/","i","m","g","-">>
                          \o C25_FourDigits(index) \o <<"-">> \o events[e].sha \o ext
    /\ \E a \in assets : a.path = Tail(events[e].text)

\* C25: with --extract-images, as many asset files are written as there are
\* distinct content hashes among the payloads handled; the files are named
\* img-<4-digit index>-<hash><ext> with the indices 0, 1, 2, ... in the order
\* of first occurrence, none used twice; and all occurrences of a hash are
\* rewritten to the same path.
C25_OneFilePerHash ==
  (opts.extract /\ pc \in {"replace", "write", "done"}) =>
    /\ Cardinality(assets) = Cardinality({events[e].sha : e \in C25_Handled})
    /\ Cardinality({a.path : a \in assets}) = Cardinality(assets)
    /\ extracted = Cardinality(assets)
    /\ \A e \in C25_Written :
         C25_Named(e, Cardinality({f \in C25_Written : f < e}))
    /\ \A e \in C25_Handled, f \in C25_Handled :
         events[e].sha = events[f].sha => events[e].text = events[f].text

\* a document with the same image twice and another image has been
\* externalised
C25_Witness ==
  /\ opts.extract
  /\ pc = "done"
  /\ Cardinality(assets) >= 2
  /\ \E e \in C25_Handled : events[e].how = "cached"

C27_ExitCodes ==
  (proc # <<>> /\ proc.pc = "exited") =>
    /\ proc.exitCode = (IF parseArgs(proc.argv).dir = "" THEN 1 ELSE 0)
    /\ proc.exitCode = 1 => (fs = fs0 /\ run = 0 /\ log = {})

\* ----------------------------------------------- claims: budget loop

\* the end of a turn of the loop that is followed by another pass
C28_Tightened == pc = "join" /\ pc' = "pass"

\* what the turn does to the two parameters
C28_OneParameter ==
  /\ C28_Tightened =>
       IF q > QualityFloor
       THEN /\ q' = Max({QualityFloor, q - QualityStep})
            /\ q' < q /\ q' >= QualityFloor
            /\ w' = w
       ELSE /\ q' = q
            /\ w' = Max({WidthFloor, w - WidthStep})
            /\ w' < w /\ w' >= WidthFloor
  /\ pass >= 1 => (q' <= q /\ w' <= w)
  /\ (pass >= 1 /\ ~C28_Tightened) => (q' = q /\ w' = w)
  /\ (loopState # "ExhaustedParameters" /\ loopState' = "ExhaustedParameters") =>
       /\ pc = "join" /\ pass >= 1
       /\ q <= QualityFloor /\ w <= WidthFloor
       /\ q' = q /\ w' = w

RECURSIVE C29_PairOf(_)
C29_PairOf(n) ==
  IF n <= 1 THEN <<opts.quality, opts.maxWidth>>
  ELSE LET p == C29_PairOf(n - 1) IN
       IF p[1] > QualityFloor THEN <<Max({QualityFloor, p[1] - QualityStep}), p[2]>>
       ELSE <<p[1], Max({WidthFloor, p[2] - WidthStep})>>

\* a pass after the first follows a pass that left the text above the
\* target, replaced something and made the text shorter; the passes so far
\* had pairwise different parameters
C29_PassesSoFar ==
  /\ (pass >= 1 /\ pc \in {"pass", "scan", "join"}) =>
       /\ pc = "pass" => (Len(current) > targetBytes /\ lastReplacements >= 1 /\ delta > 0)
       /\ pc # "pass" => <<q, w>> = C29_PairOf(pass)
       /\ \A a, b \in 1..pass : a # b => C29_PairOf(a) # C29_PairOf(b)
  /\ (pass >= 2 /\ pc \in {"scan", "join"}) =>
       (lastReplacements >= 1 /\ delta > 0 /\ before > targetBytes)

\* the end of a pass
C29_EndOfPass ==
  pc = "join" =>
    /\ pc' = "pass" =>
         /\ Len(current') > targetBytes
         /\ replaced >= 1
         /\ Len(current') < before
         /\ q > QualityFloor \/ w > WidthFloor
         /\ <<q', w'>> # <<q, w>>
    /\ Len(current') <= targetBytes =>
         (pc' = "write" /\ loopState' = "Converged")
    /\ pc' \in {"pass", "write"}

\* C29: the budget loop starts another pass only if the pass before left the
\* size above the target, made at least one replacement, made the text
\* strictly shorter, and quality or width was still above its floor; a pass
\* that reaches size <= target is the last one, and no two passes of a run
\* use the same (quality, width) pair.
C29_AnotherPassOnlyIf ==
  /\ []C29_PassesSoFar
  /\ [][C29_EndOfPass]_vars

\* a run whose third pass, the second with tightened parameters, reached
\* the target
C29_Witness ==
  /\ pass = 3
  /\ <<q, w>> # <<opts.quality, opts.maxWidth>>
  /\ loopState = "Converged"
  /\ pc = "done"

\* ------------------------------------------- claims: compaction pass

\* the text with the spans of the events replaced by what was emitted for
\* them, everything else as it was
RECURSIVE C30_Substituted(_, _, _)
C30_Substituted(text, evs, from) ==
  IF evs = <<>> THEN sliceFrom(text, from)
  ELSE slice(text, from, Head(evs).start) \o Head(evs).text
         \o C30_Substituted(text, Tail(evs), Head(evs).end)

\* the spans of the pass whose text was not emitted as it was
C30_Altered ==
  {e \in 1..Len(events) :
     events[e].text # slice(current, events[e].start, events[e].end)}

\* C30 (as claimed): when a pass has scanned the document, its output is the
\* input with nothing but the located spans replaced, and every span that
\* was altered is one data:image/<subtype>[;params];base64,<payload>
\* occurrence, from its own marker to the end of its payload.
C30_OnlyDataUrlsAltered ==
  pc = "join" =>
    LET oneDataUrl(wf) ==
          \A e \in C30_Altered :
            \E k \in 1..Len(wf) :
              /\ wf[k].start = events[e].start
              /\ wf[k].end = events[e].end
    IN /\ out \o sliceFrom(current, i) = C30_Substituted(current, events, 0)
       /\ oneDataUrl(dataImageRe_matches(current))

\* ------------------------------------------------ claims: scanner (2)

\* the payload of a data URL from offset from: the longest run of characters
\* of the base64 alphabet, '=', spaces, tabs, carriage returns and newlines
C31_PayloadEnd(html, from) ==
  runEnd(html, B64Chars \cup {"=", " ", "\t", "\r", "\n"}, from)

\* C31 (as claimed): when a pass has scanned the document, every span it located
\* at a data URL ends at the first character after the comma that is neither
\* of the base64 alphabet nor whitespace, and what was decoded is the
\* payload without its whitespace.
C31_WrappedPayloadWhole ==
  pc = "join" =>
    LET whole(wf) ==
          \A e \in 1..Len(events) : \A k \in 1..Len(wf) :
            wf[k].start = events[e].start =>
              /\ events[e].end = C31_PayloadEnd(current, wf[k].end - Len(wf[k].b64))
              /\ events[e].how # "kept" =>
                   events[e].sha = sha1Hex(fromBase64(stripWhitespace(wf[k].b64)))
    IN whole(dataImageRe_matches(current))

\* ------------------------------------------- claims: strip filters (2)

\* the url(data:image/...) references of s from offset from, in order
RECURSIVE C32_ImageRefs(_, _, _)
C32_ImageRefs(s, lower, from) ==
  LET ref(p, close) ==
        IF close = -1 THEN <<>>
        ELSE <<slice(s, p, close + 1)>> \o C32_ImageRefs(s, lower, close + 1)
      at(p) == IF p = -1 THEN <<>> ELSE ref(p, indexOf(lower, <<")">>, p))
  IN at(indexOf(lower, <<"u","r","l","(","d","a","t","a",":","i","m","a","g","e","/">>, from))

\* s has no @font-face block and no data URL of a font type
C32_NoFontData(lower) ==
  /\ ~includes(lower, <<"@","f","o","n","t","-","f","a","c","e">>)
  /\ ~includes(lower, <<"d","a","t","a",":","f","o","n","t","/">>)
  /\ ~includes(lower, <<"d","a","t","a",":","a","p","p","l","i","c","a","t","i","o","n","/">>)

\* C32 (as claimed): the text the font filter returns has every
\* url(data:image/...) reference of its input, unchanged and in order, and a
\* text without @font-face blocks and without font data URLs is returned as
\* it was.
C32_FontFilterKeepsImages ==
  (strips # <<>> /\ strips.pc = "stripe" /\ "fonts" \in strips.selected) =>
    /\ C32_ImageRefs(strips.text, asciiLower(strips.text), 0)
         = C32_ImageRefs(strips.original, asciiLower(strips.original), 0)
    /\ C32_NoFontData(asciiLower(strips.original)) => strips.text = strips.original

\* ---------------------------------------- claims: Canonicalizer (4)

\* the lines a dry run wrote for the files it would rename
C33_Previews == {l \in log : l.tag = "DRYRUN" /\ l.to # l.from}

\* C33 (as claimed): the names a dry run reports are the names the files get
\* in an apply run over the same directory.  The files of a directory have
\* different names after an apply run, so the names reported for different
\* files are different, and none is the name of a file that is reported to
\* keep its name or is not reported at all.
C33_DryRunIsPreview ==
  (~flags.apply /\ proc = <<>>) =>
    \A l \in C33_Previews :
      /\ \A m \in C33_Previews : m.from # l.from => m.to # l.to
      /\ l.to \notin DOMAIN fs0

\* ------------------------------------------- claims: maybeFixFile (3)

\* YYYY-MM-DDTHH_MM_SS_mmmZ
C34_FixedForm(dt) ==
  /\ Len(dt) = 24
  /\ \A x \in {1, 2, 3, 4, 6, 7, 9, 10, 12, 13, 15, 16, 18, 19, 21, 22, 23} :
       dt[x] \in Digits
  /\ dt[5] = "-" /\ dt[8] = "-" /\ dt[11] = "T"
  /\ dt[14] = "_" /\ dt[17] = "_" /\ dt[20] = "_"
  /\ dt[24] = "Z"

\* C34 (as claimed): the datetime suffix of a name composed from a found URL
\* has the form YYYY-MM-DDTHH_MM_SS_mmmZ, with its three-digit millisecond
\* field, whether it comes from the old name or from the clock, and the
\* name ends with it and the extension.
C34_SuffixHasFixedForm ==
  npc = "named" =>
    /\ C34_FixedForm(dtSuffix)
    /\ endsWith(newBase, <<"-">> \o dtSuffix \o extOrHtml(HtmlExtMatch(nBase)))

\* ------------------------------------------- claims: compaction pass (2)

\* text is a data URL that declares image/<fmt> and whose payload decodes
\* to an image of the format fmt
C35_Declares(text, fmt) ==
  /\ StartsAt(text, dataUrl(fmt, <<>>), 0)
  /\ LET ofFormat(bytes) ==
           bytes # <<>> /\ \A x \in 1..Len(bytes) : bytes[x] = formatByte(fmt)
     IN ofFormat(fromBase64(C10_Payload(text)))

\* C35 (as claimed): every data URL a pass has written, after an encoding or
\* from the cache, declares the format its payload is encoded in.
C35_MimeNamesFormat ==
  (pc \in {"scan", "join"}) =>
    \A e \in 1..Len(events) :
      events[e].how \in {"encoded", "cached"} =>
        \E fmt \in {<<"g","i","f">>, <<"w","e","b","p">>} :
          C35_Declares(events[e].text, fmt)

\* ------------------------------------------------ claims: scanner (3)

\* the literal lit, found at an offset of the lower-cased copy, is at that
\* offset of the original
C36_SameOffsets(html, lower, lit) ==
  \A p \in 0..(Len(lower) - 1) :
    StartsAt(lower, lit, p) => StartsAt(asciiLower(html), lit, p)

\* C36 (as claimed): the offsets of data:image and base64 in the lower-cased
\* copy of the document of a pass are offsets of the same words in the
\* document, and every span the pass has located starts, in the document,
\* at a data:image marker.
C36_LowerOffsetsAreOffsets ==
  (pc \in {"scan", "join"}) =>
    /\ C36_SameOffsets(current, toLowerCase(current), <<"d","a","t","a",":","i","m","a","g","e">>)
    /\ C36_SameOffsets(current, toLowerCase(current), <<"b","a","s","e","6","4">>)
    /\ \A e \in 1..Len(events) :
         StartsAt(asciiLower(current), <<"d","a","t","a",":","i","m","a","g","e">>, events[e].start)

====
